---- MODULE Spec2Model ----
(***************************************************************************)
(* MPT storage-leaf key constraints of zkevm-circuits.                     *)
(*                                                                         *)
(* The circuit is a grid of rows of field cells.  A prover assigns the     *)
(* cells (the witness); the gates of LeafKeyConfig::configure and          *)
(* LeafKeyInAddedBranchChip::configure are polynomial identities over the  *)
(* cells of a row and of rows at fixed rotations; a row is accepted when   *)
(* every polynomial of every gate evaluates to zero.                       *)
(*                                                                         *)
(* State: the cells the leaf gates read (the branch above the leaf, the    *)
(* branch one level higher, the position flags, the LEAF_KEY row and the   *)
(* LEAF_DRIFTED row), the challenge r, and the verdict of the gates.       *)
(* Steps: the prover assigns a well-formed leaf group, overwrites up to    *)
(* MaxTamper cells, and the gates are evaluated.                           *)
(***************************************************************************)
EXTENDS Integers, Sequences, FiniteSets, Bags, TLC

VARIABLES
    r,          \* the RLC challenge (mpt_config.randomness / r_table[0])
    is_s,       \* TRUE: the row is LEAF_KEY_S, FALSE: LEAF_KEY_C
    br,         \* cells of the branch directly above the leaf
    pbr,        \* cells of the branch one level above `br`
    pos,        \* is_account_leaf_in_added_branch cells read at rotations
    leaf,       \* cells of the LEAF_KEY_S / LEAF_KEY_C row
    drifted,    \* cells of the LEAF_DRIFTED row
    grp,        \* cells of the branch rows and of the other rows of the leaf
                \* group that only LeafKeyInAddedBranchChip reads
    tampered,   \* number of cells the prover overwrote after assignment
    phase,      \* "empty" -> "assigned" -> "verified"
    verdict,    \* [leaf |-> BOOLEAN, drifted |-> BOOLEAN] once verified
    rows,       \* the BranchCols cells of the rows assigned so far
    forged,     \* number of BranchCols cells the prover set on its own
    proof_values, \* pv: ProofValues, the state of the witness pass over the
                \* branch rows
    path,       \* the key the rows passed so far are the proof of, the number
                \* of its nibbles their nodes hold, and whether they hold no
                \* branch, one branch, or more (0, 1, 2)
    evm,        \* the transaction the EVM circuit is assigned for: its call,
                \* the machine state, the rw table and the cells of the
                \* SLOAD steps assigned so far
    child,      \* one branch child row passed through assign_branch_child
                \* on its own: the lengths and accumulators of both sides
    unroller,   \* the construction of a BytecodeUnroller: the conversion
                \* that runs, its call depth and the unroller it returned
    cell_manager \* the CellManager: the heights of its columns, its
                \* height_limit and the cells handed out since the last reset

vars == << r, is_s, br, pbr, pos, leaf, drifted, grp, tampered, phase, verdict,
          rows, forged, proof_values, path, evm, child, unroller, cell_manager >>

-----------------------------------------------------------------------------
(* Bounds of the model *)

\* number of distinct 32-byte keys the prover builds leaf groups for
NumKeys == 1
\* number of cells the prover may overwrite after a well-formed assignment
MaxTamper == 1

-----------------------------------------------------------------------------
(* The field F: FieldExt.  Cells are field elements; byte-sized values and *)
(* nibble counts are far below the modulus, so they never wrap.            *)

FieldModulus == 2^15 - 19

F(x) == x % FieldModulus
Add(a, b) == (a + b) % FieldModulus
Sub(a, b) == (a - b) % FieldModulus
\* a product is 0 as soon as its first factor is: the gates below write the
\* selectors of a product first
Mul(a, b) == LET fa == F(a) IN IF fa = 0 THEN 0 ELSE (fa * F(b)) % FieldModulus

\* challenges the model is run with
Randomness == {1021}

\* x^k in the field
RECURSIVE RPow(_, _)
RPow(x, k) ==
    IF k = 0 THEN 1
    ELSE IF k % 2 = 1 THEN Mul(x, RPow(x, k - 1))
    ELSE LET h == RPow(x, k \div 2) IN Mul(h, h)

HASH_WIDTH == 32
R_TABLE_LEN == 32

\* the powers r, r^2, ..., r^R_TABLE_LEN of each challenge
RTables == [ x \in Randomness |-> [ i \in 0..(R_TABLE_LEN - 1) |-> RPow(x, i + 1) ] ]

\* r_table[i] = r^(i+1)
r_table(x, i) == RTables[x][i]
BRANCH_ROWS_NUM == 19

c32 == 32
c48 == 48
c64 == 64
c128 == 128
c248 == 248

-----------------------------------------------------------------------------
(* Well-formed leaf groups: the rows a trie proof of a 32-byte key gives.  *)

\* Key 1 is the key of the example rows; further keys are synthetic.
ExampleKey ==
    << 59, 138, 106, 70, 105, 186, 37, 13, 38, 205, 122, 69, 158, 202, 157, 33,
       95, 131, 7, 227, 58, 235, 229, 3, 121, 188, 90, 54, 23, 236, 52, 68 >>

KeyBytes(k) ==
    IF k = 1 THEN ExampleKey
    ELSE [i \in 1..HASH_WIDTH |-> (37 * i + 11 * k) % 256]

\* nibble i (1..64) of a key: high nibble first
Nibble(kb, i) ==
    IF i % 2 = 1 THEN kb[(i + 1) \div 2] \div 16 ELSE kb[i \div 2] % 16

\* depths (branches above the leaf) the prover builds leaf groups at
Depths == {0, 1, 2, 62, 63, 64}

Zeros(k) == [i \in 1..k |-> 0]
Pad(s, k) == s \o Zeros(k - Len(s))

\* the key bytes stored in a leaf below n branches: the remaining nibbles,
\* behind 32 (even count) or behind 48 + first nibble (odd count)
KeyPart(kb, n) ==
    IF n % 2 = 0
    THEN << 32 >> \o SubSeq(kb, n \div 2 + 1, HASH_WIDTH)
    ELSE << 48 + Nibble(kb, n + 1) >> \o SubSeq(kb, (n + 1) \div 2 + 1, HASH_WIDTH)

\* the witness pass over a branch that is not an extension node
BranchKeyStep(pv, modified_node, x) ==
    IF pv.key_rlc_sel
    THEN [ key_rlc      |-> Add(pv.key_rlc, Mul(Mul(modified_node, 16), pv.key_rlc_mult)),
           key_rlc_mult |-> pv.key_rlc_mult,
           key_rlc_sel  |-> ~pv.key_rlc_sel,
           nibbles_num  |-> pv.nibbles_num + 1 ]
    ELSE [ key_rlc      |-> Add(pv.key_rlc, Mul(modified_node, pv.key_rlc_mult)),
           key_rlc_mult |-> Mul(pv.key_rlc_mult, x),
           key_rlc_sel  |-> ~pv.key_rlc_sel,
           nibbles_num  |-> pv.nibbles_num + 1 ]

ProofValuesInit ==
    [ key_rlc |-> 0, key_rlc_mult |-> 1, key_rlc_sel |-> TRUE, nibbles_num |-> 0 ]

\* pv: ProofValues before the first row of a proof
ProofValuesDefault ==
    [ modified_node |-> 0, drifted_pos |-> 0, node_index |-> 0,
      s_mod_node_hash_rlc |-> 0, c_mod_node_hash_rlc |-> 0,
      is_branch_s_placeholder |-> FALSE, is_branch_c_placeholder |-> FALSE,
      rlp_len_rem_s |-> 0, rlp_len_rem_c |-> 0,
      is_even |-> FALSE, is_odd |-> FALSE, is_short |-> FALSE,
      is_long |-> FALSE, is_extension_node |-> FALSE,
      extension_node_rlc |-> 0, key_rlc_prev |-> 0, key_rlc_mult_prev |-> 1,
      key_rlc |-> ProofValuesInit.key_rlc,
      key_rlc_mult |-> ProofValuesInit.key_rlc_mult,
      key_rlc_sel |-> ProofValuesInit.key_rlc_sel,
      nibbles_num |-> ProofValuesInit.nibbles_num,
      \* the rows of the branch the pass is at, which it reads from `witness`
      witness |-> [ modified_node |-> 0, drifted_pos |-> 0, placeholder |-> "none",
                    ext |-> << >>, extra_child |-> FALSE ] ]

\* ProofValues after the branches of the first n nibbles of the key
RECURSIVE BranchKeyFrom(_, _, _, _, _)
BranchKeyFrom(pv, kb, lo, hi, x) ==
    IF lo > hi THEN pv
    ELSE IF lo = hi THEN BranchKeyStep(pv, Nibble(kb, lo), x)
    ELSE LET mid  == (lo + hi) \div 2
             left == BranchKeyFrom(pv, kb, lo, mid, x)
         IN  IF left.nibbles_num >= 0
             THEN BranchKeyFrom(left, kb, mid + 1, hi, x)
             ELSE pv

BranchKey(kb, n, x) == BranchKeyFrom(ProofValuesInit, kb, 1, n, x)

\* cells of a branch the leaf gates read: the init row (c16, c1, placeholder
\* flags, nibble counter) and the key accumulator of its child rows
BranchCells(before, after, ph_s, ph_c) ==
    [ c16               |-> IF before.key_rlc_sel THEN 1 ELSE 0,
      c1                |-> IF before.key_rlc_sel THEN 0 ELSE 1,
      is_s_placeholder  |-> ph_s,
      is_c_placeholder  |-> ph_c,
      nibbles_count     |-> after.nibbles_num,
      key_rlc           |-> after.key_rlc,
      key_mult          |-> after.key_rlc_mult ]

NoBranch ==
    [ c16 |-> 0, c1 |-> 0, is_s_placeholder |-> 0, is_c_placeholder |-> 0,
      nibbles_count |-> 0, key_rlc |-> 0, key_mult |-> 0 ]

\* the branch at depth n on the path of the key (n >= 1)
PathBranch(kb, n, x) ==
    IF n = 0 THEN NoBranch
    ELSE BranchCells(BranchKey(kb, n - 1, x), BranchKey(kb, n, x), 0, 0)

\* the placeholder branch below depth n: a copy of the branch the parallel
\* proof added, whose modified child is the other leaf's nibble
PlaceholderBranch(kb, n, x, side_s) ==
    LET before == BranchKey(kb, n, x)
        after  == BranchKeyStep(before, (Nibble(kb, n + 1) + 1) % 16, x)
    IN  BranchCells(before, after, IF side_s THEN 1 ELSE 0, IF side_s THEN 0 ELSE 1)

\* RLC of the key as the MPT lookup sees it: sum of K[i] * r^i
RECURSIVE KeyRlcRange(_, _, _, _)
KeyRlcRange(kb, lo, hi, x) ==
    IF lo = hi THEN Mul(kb[lo], RPow(x, lo - 1))
    ELSE Add(KeyRlcRange(kb, lo, (lo + hi) \div 2, x),
             KeyRlcRange(kb, (lo + hi) \div 2 + 1, hi, x))

KeyRlcDirect(kb, x) == KeyRlcRange(kb, 1, HASH_WIDTH, x)

EmptyRow ==
    [ s_rlp1 |-> 0, s_rlp2 |-> 0, bytes |-> Zeros(HASH_WIDTH), c_rlp1 |-> 0,
      c_rlp2 |-> 0, flag1 |-> 0, flag2 |-> 0, acc_rlc |-> 0, acc_mult |-> 0,
      key_rlc |-> 0, sel1 |-> 0, sel2 |-> 0 ]

Forms == {"short", "long"}

\* the bytes and flags of a leaf key row holding key part kp
LeafBytes(kp, form) ==
    IF Len(kp) = 1
    THEN [ EmptyRow EXCEPT !.s_rlp1 = 194, !.s_rlp2 = kp[1],
               !.flag1 = IF kp[1] = 32 THEN 1 ELSE 0,
               !.flag2 = IF kp[1] = 32 THEN 1 ELSE 0 ]
    ELSE IF form = "short"
    THEN LET payload == Pad(kp, HASH_WIDTH + 2)
         IN  [ EmptyRow EXCEPT !.s_rlp1 = 192 + Len(kp) + 2,
                   !.s_rlp2 = 128 + Len(kp),
                   !.bytes = SubSeq(payload, 1, HASH_WIDTH),
                   !.c_rlp1 = payload[HASH_WIDTH + 1],
                   !.c_rlp2 = payload[HASH_WIDTH + 2],
                   !.flag1 = 0, !.flag2 = 1 ]
    ELSE LET payload == Pad(<< 128 + Len(kp) >> \o kp, HASH_WIDTH + 2)
         IN  [ EmptyRow EXCEPT !.s_rlp1 = 248,
                   !.s_rlp2 = Len(kp) + 35,
                   !.bytes = SubSeq(payload, 1, HASH_WIDTH),
                   !.c_rlp1 = payload[HASH_WIDTH + 1],
                   !.c_rlp2 = payload[HASH_WIDTH + 2],
                   !.flag1 = 1, !.flag2 = 0 ]

-----------------------------------------------------------------------------
(* Expressions shared by the gates *)

\* the four cases of a leaf row, from its two flag cells
last_level(flag1, flag2) == Mul(flag1, flag2)
is_long(flag1, flag2) == Mul(flag1, Sub(1, flag2))
\* is_short with the negation of flag1 left out
is_short_without_negation(flag1, flag2) == Mul(flag1, flag2)
is_short(flag1, flag2) == Mul(Sub(1, flag1), flag2)
one_nibble(flag1, flag2) == Mul(Sub(1, flag1), Sub(1, flag2))

get_bool_constraint(q_enable, x) == Mul(q_enable, Mul(x, Sub(1, x)))

\* sum of bytes[ind] * mult * r_table[ind - shift] for ind in lo..hi
\* (ind counts the row's bytes from 0).  The terms are summed as the counts
\* of a bag, each one more than the term since a bag holds no count 0.
FoldRange(bytes, lo, hi, shift, mult, x) ==
    LET m == F(mult)
    IN  (BagCardinality([ ind \in lo..hi |->
             1 + Mul(bytes[ind + 1], Mul(m, r_table(x, ind - shift))) ])
         - (hi - lo + 1)) % FieldModulus

\* the loop `for ind in from..HASH_WIDTH` over the row's bytes
FoldBytes(bytes, from, shift, mult, x) ==
    FoldRange(bytes, from, HASH_WIDTH - 1, shift, mult, x)

\* compute_rlc(meta, s_main.bytes, 1, one, 0, r_table): byte ind is multiplied
\* by r_table[ind + 1], and past the end of the table by
\* r_table[ind + 1 - R_TABLE_LEN] * r_table[R_TABLE_LEN - 1]
RlcRange(bytes, lo, hi, x) ==
    (BagCardinality([ ind \in lo..hi |->
         1 + (IF ind + 1 < R_TABLE_LEN
              THEN Mul(bytes[ind + 1], r_table(x, ind + 1))
              ELSE Mul(bytes[ind + 1],
                       Mul(r_table(x, ind + 1 - R_TABLE_LEN),
                           r_table(x, R_TABLE_LEN - 1)))) ])
     - (hi - lo + 1)) % FieldModulus

compute_rlc(bytes, x) == RlcRange(bytes, 0, HASH_WIDTH - 1, x)

rlc_last_level_or_one_nibble(l, x) == Add(l.s_rlp1, Mul(l.s_rlp2, r_table(x, 0)))

\* RLC of all the bytes of a leaf key row
row_rlc(l, x) ==
    Add(Add(rlc_last_level_or_one_nibble(l, x), compute_rlc(l.bytes, x)),
        Add(Mul(l.c_rlp1, Mul(r_table(x, R_TABLE_LEN - 1), r_table(x, 1))),
            Mul(l.c_rlp2, Mul(r_table(x, R_TABLE_LEN - 1), r_table(x, 2)))))

\* every polynomial of a gate is 0
NonZero(v) == v # 0
AllZero(polys) == SelectSeq(polys, NonZero) = << >>

-----------------------------------------------------------------------------
(* Gate "Storage leaf key RLC" *)

\* the gate without its check of the first byte of a long leaf
is_long_s_rlp1_unchecked(l) == 0

\* "is_long: s_rlp1 = 248"
is_long_s_rlp1_248(l) == Mul(is_long(l.flag1, l.flag2), Sub(l.s_rlp1, c248))

\* the gate without its check of the second byte of a last-level leaf
last_level_s_rlp2_unchecked(l) == 0

\* "last_level: s_rlp2 = 32"
last_level_s_rlp2_32(l) == Mul(last_level(l.flag1, l.flag2), Sub(l.s_rlp2, c32))

gate_leaf_key_rlc(l, x) ==
    << is_long_s_rlp1_248(l),
       last_level_s_rlp2_32(l),
       get_bool_constraint(1, l.flag1),
       get_bool_constraint(1, l.flag2),
       Mul(Add(is_short(l.flag1, l.flag2), is_long(l.flag1, l.flag2)),
           Sub(row_rlc(l, x), l.acc_rlc)),
       Mul(Add(last_level(l.flag1, l.flag2), one_nibble(l.flag1, l.flag2)),
           Sub(rlc_last_level_or_one_nibble(l, x), l.acc_rlc)) >>

-----------------------------------------------------------------------------
(* Gate "Storage leaf key RLC & nibbles count (leaf not in first level,    *)
(* branch not placeholder)"; the same expressions serve the gate after a   *)
(* placeholder, with the start values and sel1 / sel2 of the level above.  *)

\* multiplier of the first full key byte
key_mult(key_mult_start, c16, c1, x) ==
    Add(Mul(Mul(key_mult_start, r_table(x, 0)), c16), Mul(key_mult_start, c1))

\* key RLC of a short leaf: the key starts at s_main.bytes[0]
key_rlc_acc_short(key_rlc_acc_start, key_mult_start, c16, c1, l, x) ==
    LET km == key_mult(key_mult_start, c16, c1, x)
    IN  Add(Add(Add(key_rlc_acc_start,
                    Mul(Mul(Sub(l.bytes[1], c48), key_mult_start), c16)),
                Mul(l.bytes[2], km)),
            Add(FoldBytes(l.bytes, 2, 2, km, x),
                Mul(l.c_rlp1, Mul(km, r_table(x, 30)))))

\* key RLC of a long leaf with the powers of r of the short case, one
\* position too high
key_rlc_acc_long_unshifted(key_rlc_acc_start, key_mult_start, c16, c1, l, x) ==
    LET km == key_mult(key_mult_start, c16, c1, x)
    IN  Add(Add(Add(key_rlc_acc_start,
                    Mul(Mul(Sub(l.bytes[2], c48), key_mult_start), c16)),
                Mul(l.bytes[3], km)),
            Add(FoldBytes(l.bytes, 3, 2, km, x),
                Add(Mul(l.c_rlp1, Mul(km, r_table(x, 30))),
                    Mul(l.c_rlp2, Mul(km, r_table(x, 31))))))

\* key RLC of a long leaf: the key starts at s_main.bytes[1]
key_rlc_acc_long(key_rlc_acc_start, key_mult_start, c16, c1, l, x) ==
    LET km == key_mult(key_mult_start, c16, c1, x)
    IN  Add(Add(Add(key_rlc_acc_start,
                    Mul(Mul(Sub(l.bytes[2], c48), key_mult_start), c16)),
                Mul(l.bytes[3], km)),
            Add(FoldBytes(l.bytes, 3, 3, km, x),
                Add(Mul(l.c_rlp1, Mul(km, r_table(x, 29))),
                    Mul(l.c_rlp2, Mul(km, r_table(x, 30))))))

leaf_nibbles_long(s_bytes0, c16, c1) ==
    Add(Mul(Mul(Sub(Sub(s_bytes0, c128), 1), 2), c1),
        Mul(Sub(Mul(Sub(s_bytes0, c128), 2), 1), c16))

\* the nibbles of a short leaf with the two parities exchanged
leaf_nibbles_short_parity_exchanged(s_rlp2, c16, c1) ==
    Add(Mul(Mul(Sub(Sub(s_rlp2, c128), 1), 2), c16),
        Mul(Sub(Mul(Sub(s_rlp2, c128), 2), 1), c1))

leaf_nibbles_short(s_rlp2, c16, c1) ==
    Add(Mul(Mul(Sub(Sub(s_rlp2, c128), 1), 2), c1),
        Mul(Sub(Mul(Sub(s_rlp2, c128), 2), 1), c16))

leaf_nibbles_last_level == 0
leaf_nibbles_one_nibble == 1

\* nibbles of the leaf in the gate below a branch that is no placeholder
leaf_nibbles(l, c16, c1) ==
    Add(Add(Mul(leaf_nibbles_long(l.bytes[1], c16, c1), is_long(l.flag1, l.flag2)),
            Mul(leaf_nibbles_short(l.s_rlp2, c16, c1), is_short(l.flag1, l.flag2))),
        Add(Mul(leaf_nibbles_last_level, last_level(l.flag1, l.flag2)),
            Mul(leaf_nibbles_one_nibble, one_nibble(l.flag1, l.flag2))))

\* the placeholder flag of the leaf's own side in the branch init row
is_branch_placeholder(b, side_s) ==
    IF side_s THEN b.is_s_placeholder ELSE b.is_c_placeholder

\* (1 - is_branch_placeholder) * (1 - is_leaf_in_first_level)
not_placeholder_not_first(b, p, side_s) ==
    Mul(Sub(1, is_branch_placeholder(b, side_s)), Sub(1, p.is_leaf_in_first_level))

\* the gate without its check of the prefix byte of a short leaf
leaf_key_s_bytes0_short_unchecked(l, b, p, side_s) == 0

\* "Leaf key RLC s_bytes0 (short)"
leaf_key_s_bytes0_short(l, b, p, side_s) ==
    Mul(is_short(l.flag1, l.flag2),
        Mul(not_placeholder_not_first(b, p, side_s),
            Mul(b.c1, Sub(l.bytes[1], c32))))

\* the gate without its check of the key RLC of a short leaf
key_rlc_short_unchecked(l, b, p, side_s, x) == 0

\* "Key RLC (short)"
key_rlc_short(l, b, p, side_s, x) ==
    Mul(is_short(l.flag1, l.flag2),
        Mul(not_placeholder_not_first(b, p, side_s),
            Sub(key_rlc_acc_short(b.key_rlc, b.key_mult, b.c16, b.c1, l, x),
                l.key_rlc)))

\* the gate without its check of the total number of nibbles
total_nibbles_unchecked(l, b, p, side_s) == 0

\* "Total number of storage address nibbles is 64 (not first level, not
\* branch placeholder)"
total_nibbles_64(l, b, p, side_s) ==
    Mul(not_placeholder_not_first(b, p, side_s),
        Sub(Add(b.nibbles_count, leaf_nibbles(l, b.c16, b.c1)), c64))

gate_key_rlc_and_nibbles(l, b, p, side_s, x) ==
    LET active == not_placeholder_not_first(b, p, side_s)
    IN  << leaf_key_s_bytes0_short(l, b, p, side_s),
           key_rlc_short(l, b, p, side_s, x),
           Mul(is_long(l.flag1, l.flag2),
               Mul(active, Mul(b.c1, Sub(l.bytes[2], c32)))),
           Mul(is_long(l.flag1, l.flag2),
               Mul(active,
                   Sub(key_rlc_acc_long(b.key_rlc, b.key_mult, b.c16, b.c1, l, x),
                       l.key_rlc))),
           Mul(Add(last_level(l.flag1, l.flag2), one_nibble(l.flag1, l.flag2)),
               Mul(active, Sub(b.key_rlc, l.key_rlc))),
           total_nibbles_64(l, b, p, side_s) >>

-----------------------------------------------------------------------------
(* Gate "Storage leaf key RLC (leaf in first level)": flag1 and flag2 are  *)
(* used as is_long and is_short directly.                                  *)

first_level_key_rlc_acc_short(l, x) ==
    Add(Add(0, Mul(l.bytes[2], 1)),
        Add(FoldBytes(l.bytes, 2, 2, 1, x), Mul(l.c_rlp1, Mul(1, r_table(x, 30)))))

first_level_key_rlc_acc_long(l, x) ==
    Add(Add(0, Mul(l.bytes[3], 1)),
        Add(FoldBytes(l.bytes, 3, 3, 1, x),
            Add(Mul(l.c_rlp1, Mul(1, r_table(x, 29))),
                Mul(l.c_rlp2, Mul(1, r_table(x, 30))))))

first_level_leaf_nibbles(l) ==
    Add(Mul(Mul(Sub(Sub(l.bytes[1], c128), 1), 2), l.flag1),
        Mul(Mul(Sub(Sub(l.s_rlp2, c128), 1), 2), l.flag2))

\* the first-level gate without its check of the number of nibbles
first_level_total_nibbles_unchecked(l, p) == 0

\* "Total number of account address nibbles is 64 (first level)"
first_level_total_nibbles_64(l, p) ==
    Mul(p.is_leaf_in_first_level, Sub(first_level_leaf_nibbles(l), c64))

\* the first-level gate without its check of the key RLC of a short leaf
first_level_key_rlc_short_unchecked(l, p, x) == 0

\* "Key RLC short" (first level)
first_level_key_rlc_short(l, p, x) ==
    Mul(l.flag2,
        Mul(p.is_leaf_in_first_level,
            Sub(first_level_key_rlc_acc_short(l, x), l.key_rlc)))

gate_first_level(l, p, x) ==
    << Mul(l.flag2, Mul(p.is_leaf_in_first_level, Sub(l.bytes[1], c32))),
       first_level_key_rlc_short(l, p, x),
       Mul(l.flag1, Mul(p.is_leaf_in_first_level, Sub(l.bytes[2], c32))),
       Mul(l.flag1,
           Mul(p.is_leaf_in_first_level,
               Sub(first_level_key_rlc_acc_long(l, x), l.key_rlc))),
       first_level_total_nibbles_64(l, p) >>

-----------------------------------------------------------------------------
(* Gate "Previous level RLC": sel1 / sel2 of the leaf row hold the key RLC *)
(* and multiplier of the branch above the branch above the leaf.           *)

\* the gate without its check of denoter.sel1
previous_key_rlc_unchecked(l, pb, p) == 0

\* "Previous key RLC"
previous_key_rlc(l, pb, p) ==
    LET key_rlc_prev_level == Mul(Sub(1, p.is_first_storage_level), pb.key_rlc)
    IN  Mul(Sub(l.sel1, key_rlc_prev_level), Sub(1, p.is_leaf_in_first_level))

gate_previous_level_rlc(l, pb, p) ==
    LET key_rlc_mult_prev_level ==
            Add(Mul(Sub(1, p.is_first_storage_level), pb.key_mult),
                p.is_first_storage_level)
    IN  << previous_key_rlc(l, pb, p),
           Mul(Sub(l.sel2, key_rlc_mult_prev_level), Sub(1, p.is_leaf_in_first_level)) >>

-----------------------------------------------------------------------------
(* Gate "Storage leaf key RLC (after placeholder)" *)

after_placeholder_leaf_nibbles(l, sel1, sel2) ==
    Add(Add(Mul(leaf_nibbles_long(l.bytes[1], sel1, sel2), is_long(l.flag1, l.flag2)),
            Mul(leaf_nibbles_short(l.s_rlp2, sel1, sel2), is_short(l.flag1, l.flag2))),
        Mul(leaf_nibbles_one_nibble, one_nibble(l.flag1, l.flag2)))

\* the gate without its check of the total number of nibbles
after_placeholder_total_nibbles_unchecked(l, b, pb, p, side_s) == 0

\* "Total number of account address nibbles is 64 (after placeholder)"
after_placeholder_total_nibbles_64(l, b, pb, p, side_s) ==
    LET sel1 == Mul(Sub(1, p.is_first_storage_level), pb.c16)
        sel2 == Add(Mul(Sub(1, p.is_first_storage_level), pb.c1),
                    p.is_first_storage_level)
        nibbles_count == Mul(pb.nibbles_count, Sub(1, p.is_first_storage_level))
    IN  Mul(Mul(is_branch_placeholder(b, side_s), Sub(1, p.is_leaf_in_first_level)),
            Sub(Add(nibbles_count, after_placeholder_leaf_nibbles(l, sel1, sel2)),
                c64))

gate_after_placeholder(l, b, pb, p, side_s, x) ==
    LET key_rlc_acc_start == Mul(l.sel1, Sub(1, p.is_first_storage_level))
        key_mult_start == Add(Mul(l.sel2, Sub(1, p.is_first_storage_level)),
                              p.is_first_storage_level)
        sel1 == Mul(Sub(1, p.is_first_storage_level), pb.c16)
        sel2 == Add(Mul(Sub(1, p.is_first_storage_level), pb.c1),
                    p.is_first_storage_level)
        active == Mul(is_branch_placeholder(b, side_s),
                      Sub(1, p.is_leaf_in_first_level))
    IN  << Mul(is_short(l.flag1, l.flag2),
               Mul(active, Mul(sel2, Sub(l.bytes[1], c32)))),
           Mul(is_short(l.flag1, l.flag2),
               Mul(active,
                   Sub(key_rlc_acc_short(key_rlc_acc_start, key_mult_start,
                                         sel1, sel2, l, x),
                       l.key_rlc))),
           Mul(is_long(l.flag1, l.flag2),
               Mul(active, Mul(sel2, Sub(l.bytes[2], c32)))),
           Mul(is_long(l.flag1, l.flag2),
               Mul(active,
                   Sub(key_rlc_acc_long(key_rlc_acc_start, key_mult_start,
                                        sel1, sel2, l, x),
                       l.key_rlc))),
           after_placeholder_total_nibbles_64(l, b, pb, p, side_s) >>

\* range_lookups: every byte cell of the row is in the Range256 table
InRange256(v) == v \in 0..255

leaf_range_lookups(l) ==
    /\ \A i \in 1..HASH_WIDTH : InRange256(l.bytes[i])
    /\ InRange256(l.s_rlp1) /\ InRange256(l.s_rlp2)
    /\ InRange256(l.c_rlp1) /\ InRange256(l.c_rlp2)

\* mult_diff_lookup(sel, addition, key_len, acc_s.mult, 128): where sel is set
\* the multiplier is r to the power key_len - 128 + addition, the number of
\* bytes of the row up to the end of the key
mult_diff_lookup(sel, addition, key_len, mult, x) ==
    LET i == Mul(sel, Sub(key_len, 128 - addition))
    IN  /\ i \in 0..(2 * HASH_WIDTH + 1)
        /\ Add(Mul(sel, mult), Sub(1, sel)) = RPow(x, i)

\* a leaf key row satisfies every gate of LeafKeyConfig
LeafKeyAccepted(l, b, pb, p, side_s, x) ==
    /\ mult_diff_lookup(is_short(l.flag1, l.flag2), 2, l.s_rlp2, l.acc_mult, x)
    /\ mult_diff_lookup(is_long(l.flag1, l.flag2), 3, l.bytes[1], l.acc_mult, x)
    /\ AllZero(gate_leaf_key_rlc(l, x))
    /\ AllZero(gate_key_rlc_and_nibbles(l, b, p, side_s, x))
    /\ AllZero(gate_first_level(l, p, x))
    /\ AllZero(gate_previous_level_rlc(l, pb, p))
    /\ AllZero(gate_after_placeholder(l, b, pb, p, side_s, x))
    /\ leaf_range_lookups(l)

-----------------------------------------------------------------------------
(* LeafKeyInAddedBranchChip, gate "Storage leaf in added branch RLC" *)

\* the drifted-leaf gate without its booleanity check of flag2
drifted_flag2_unchecked(d) == 0

\* "flag2 is boolean"
drifted_flag2_is_boolean(d) == get_bool_constraint(1, d.flag2)

\* the gate without its check that a drifted leaf is no one_nibble leaf
not_both_zeros_unchecked(d, b, p) == 0

\* the check without its factor 1 - is_leaf_in_first_storage_level
not_both_zeros_in_every_level(d, b, p) ==
    Mul(Add(b.is_s_placeholder, b.is_c_placeholder),
        Mul(Sub(1, d.flag1), Sub(1, d.flag2)))

\* "not both zeros: flag1, flag2"
not_both_zeros(d, b, p) ==
    Mul(Mul(Add(b.is_s_placeholder, b.is_c_placeholder),
            Sub(1, p.is_leaf_in_first_level)),
        Mul(Sub(1, d.flag1), Sub(1, d.flag2)))

gate_drifted_rlc(d, b, p, x) ==
    LET placeholder == Add(b.is_s_placeholder, b.is_c_placeholder)
        not_first == Sub(1, p.is_leaf_in_first_level)
    IN  << Mul(is_long(d.flag1, d.flag2), Sub(d.s_rlp1, c248)),
           get_bool_constraint(1, d.flag1),
           drifted_flag2_is_boolean(d),
           not_both_zeros(d, b, p),
           Mul(Add(is_short(d.flag1, d.flag2), is_long(d.flag1, d.flag2)),
               Mul(not_first,
                   Mul(placeholder, Sub(row_rlc(d, x), d.acc_rlc)))),
           Mul(last_level(d.flag1, d.flag2),
               Mul(not_first,
                   Mul(placeholder,
                       Sub(rlc_last_level_or_one_nibble(d, x), d.acc_rlc)))) >>

\* sel_short / sel_long of the drifted row
drifted_sel_short(d, b, p) ==
    Mul(is_short(d.flag1, d.flag2),
        Mul(Add(b.is_s_placeholder, b.is_c_placeholder),
            Sub(1, p.is_leaf_in_first_level)))

drifted_sel_long(d, b, p) ==
    Mul(is_long(d.flag1, d.flag2),
        Mul(Add(b.is_s_placeholder, b.is_c_placeholder),
            Sub(1, p.is_leaf_in_first_level)))

-----------------------------------------------------------------------------
(* Gate "Drifted leaf key RLC".  g holds the cells only this chip reads:    *)
(* key.rlc of the extension row and mult_diff, drifted_pos of the branch    *)
(* above, key.rlc of the other LEAF_KEY row, the two LEAF_VALUE rows and    *)
(* s_mod_node_hash_rlc / c_mod_node_hash_rlc of the branch.                 *)

\* key_mult taken from the level above also in the first storage level
drifted_key_mult_of_level_above(pb, p, g) == Mul(pb.key_mult, g.mult_diff)

\* key_mult: the key multiplier before the branch the leaf drifted into
drifted_key_mult(pb, p, g) ==
    Add(Add(Mul(Sub(1, p.is_first_storage_level), Mul(pb.key_mult, g.mult_diff)),
            Mul(p.is_first_storage_level, g.is_ext_one_nibble)),
        Mul(p.is_first_storage_level, Mul(g.mult_diff, Sub(1, g.is_ext_one_nibble))))

\* key_rlc_start = key_rlc_cur + drifted_pos * drifted_pos_mult
drifted_key_rlc_start(b, pb, p, g) ==
    LET km == drifted_key_mult(pb, p, g)
        drifted_pos_mult == Add(Mul(b.c16, Mul(km, 16)), Mul(b.c1, km))
    IN  Add(g.ext_key_rlc, Mul(g.drifted_pos, drifted_pos_mult))

drifted_key_rlc_short(d, b, pb, p, g, x) ==
    LET km == drifted_key_mult(pb, p, g)
    IN  Add(Add(drifted_key_rlc_start(b, pb, p, g),
                Mul(b.c16, Mul(Sub(d.bytes[1], c48), km))),
            FoldBytes(d.bytes, 1, 1, km, x))

drifted_key_rlc_long(d, b, pb, p, g, x) ==
    LET km == drifted_key_mult(pb, p, g)
    IN  Add(Add(drifted_key_rlc_start(b, pb, p, g),
                Mul(b.c16, Mul(Sub(d.bytes[2], c48), km))),
            Add(FoldBytes(d.bytes, 2, 2, km, x),
                Mul(d.c_rlp1, Mul(km, r_table(x, 30)))))

\* the gate without its comparison of a short drifted leaf with LEAF_KEY_S
drifted_leaf_key_s_short_unchecked(d, b, pb, p, g, leaf_key_s_rlc, x) == 0

\* "Drifted leaf key S short"
drifted_leaf_key_s_short(d, b, pb, p, g, leaf_key_s_rlc, x) ==
    Mul(b.is_s_placeholder,
        Mul(is_short(d.flag1, d.flag2),
            Mul(Sub(1, p.is_leaf_in_first_level),
                Sub(leaf_key_s_rlc, drifted_key_rlc_short(d, b, pb, p, g, x)))))

gate_drifted_key_rlc(d, b, pb, p, g, leaf_key_s_rlc, leaf_key_c_rlc, x) ==
    LET placeholder == Add(b.is_s_placeholder, b.is_c_placeholder)
        not_first == Sub(1, p.is_leaf_in_first_level)
        short == is_short(d.flag1, d.flag2)
        long == is_long(d.flag1, d.flag2)
        last == last_level(d.flag1, d.flag2)
    IN  << Mul(Mul(placeholder, b.c1),
               Mul(Mul(not_first, short), Sub(d.bytes[1], c32))),
           drifted_leaf_key_s_short(d, b, pb, p, g, leaf_key_s_rlc, x),
           Mul(b.is_c_placeholder,
               Mul(short,
                   Mul(not_first,
                       Sub(leaf_key_c_rlc, drifted_key_rlc_short(d, b, pb, p, g, x))))),
           Mul(b.c1, Mul(Mul(not_first, long), Sub(d.bytes[2], c32))),
           Mul(b.is_s_placeholder,
               Mul(long,
                   Mul(not_first,
                       Sub(leaf_key_s_rlc, drifted_key_rlc_long(d, b, pb, p, g, x))))),
           Mul(b.is_c_placeholder,
               Mul(long,
                   Mul(not_first,
                       Sub(leaf_key_c_rlc, drifted_key_rlc_long(d, b, pb, p, g, x))))),
           Mul(placeholder, Mul(Mul(not_first, last), Sub(d.s_rlp2, c32))),
           Mul(b.is_s_placeholder,
               Mul(last,
                   Mul(not_first,
                       Sub(leaf_key_s_rlc, drifted_key_rlc_start(b, pb, p, g))))),
           Mul(b.is_c_placeholder,
               Mul(last,
                   Mul(not_first,
                       Sub(leaf_key_c_rlc, drifted_key_rlc_start(b, pb, p, g))))) >>

-----------------------------------------------------------------------------
(* Lookups "drifted leaf hash the branch (S)" and "(C)" into the keccak     *)
(* table.                                                                  *)

\* RLC of the hash the table holds for the bytes of RLC a
KeccakRlc(a) == Add(Mul(a, Add(a, 7)), 977)

\* the keccak table: the padding row and the rows (RLC of bytes, RLC of hash)
InKeccakTable(pair) ==
    \/ pair = << 0, 0 >>
    \/ pair[2] = KeccakRlc(pair[1])

\* the RLC of the drifted key row continued over the LEAF_VALUE row v
drifted_leaf_rlc(d, v, x) ==
    Add(d.acc_rlc,
        Mul(d.acc_mult,
            Add(Add(v.s_rlp1, Mul(v.s_rlp2, r_table(x, 0))), compute_rlc(v.bytes, x))))

\* the lookup (S) never enabled
drifted_hash_lookup_s_disabled(d, b, p, g, x) == << 0, 0 >>

\* the pair looked up by "drifted leaf hash the branch (S)"
drifted_hash_lookup_s(d, b, p, g, x) ==
    LET sel == Mul(b.is_s_placeholder, Sub(1, p.is_leaf_in_first_level))
    IN  << Mul(sel, drifted_leaf_rlc(d, g.value_s, x)),
           Mul(sel, g.s_mod_node_hash_rlc) >>

\* the pair looked up by "drifted leaf hash the branch (C)"
drifted_hash_lookup_c(d, b, p, g, x) ==
    LET sel == Mul(b.is_c_placeholder, Sub(1, p.is_leaf_in_first_level))
    IN  << Mul(sel, drifted_leaf_rlc(d, g.value_c, x)),
           Mul(sel, g.c_mod_node_hash_rlc) >>

\* the drifted leaf row satisfies every gate and lookup of
\* LeafKeyInAddedBranchChip
DriftedAccepted(d, b, pb, p, g, leaf_key_s_rlc, leaf_key_c_rlc, x) ==
    /\ AllZero(gate_drifted_rlc(d, b, p, x))
    /\ mult_diff_lookup(drifted_sel_short(d, b, p), 2, d.s_rlp2, d.acc_mult, x)
    /\ mult_diff_lookup(drifted_sel_long(d, b, p), 3, d.bytes[1], d.acc_mult, x)
    /\ AllZero(gate_drifted_key_rlc(d, b, pb, p, g, leaf_key_s_rlc, leaf_key_c_rlc, x))
    /\ InKeccakTable(drifted_hash_lookup_s(d, b, p, g, x))
    /\ InKeccakTable(drifted_hash_lookup_c(d, b, p, g, x))
    /\ leaf_range_lookups(d)

-----------------------------------------------------------------------------
(* The prover's assignment of a leaf group *)

\* acc_s.rlc of a row: the RLC of the bytes its case stores
HonestAcc(l, x) ==
    IF l.flag1 = l.flag2 THEN rlc_last_level_or_one_nibble(l, x) ELSE row_rlc(l, x)

\* acc_s.mult of a row: r to the number of bytes up to the end of the key
HonestMult(l, x) ==
    LET len == IF l.flag1 = 0 /\ l.flag2 = 1 THEN l.s_rlp2 - 128 + 2
               ELSE IF l.flag1 = 1 /\ l.flag2 = 0 THEN l.bytes[1] - 128 + 3
               ELSE 2
    IN  RPow(x, IF len > 0 THEN len ELSE 0)

WithAcc(l, x) == [ l EXCEPT !.acc_rlc = HonestAcc(l, x), !.acc_mult = HonestMult(l, x) ]

NoPosition == [ is_leaf_in_first_level |-> 0, is_first_storage_level |-> 0 ]

\* position flags of a leaf whose branch above (if any) is at depth d
PositionCells(d) ==
    [ is_leaf_in_first_level |-> IF d = 0 THEN 1 ELSE 0,
      is_first_storage_level |-> IF d = 1 THEN 1 ELSE 0 ]

\* the LEAF_KEY row of the key's leaf below n branches; pb is the branch whose
\* key RLC and multiplier the row's sel1 / sel2 copy
HonestLeaf(kb, n, form, pb, p, x) ==
    LET l == WithAcc(LeafBytes(KeyPart(kb, n), form), x)
    IN  [ l EXCEPT
            !.key_rlc = KeyRlcDirect(kb, x),
            !.sel1 = IF p.is_leaf_in_first_level = 1 THEN 0
                     ELSE Mul(Sub(1, p.is_first_storage_level), pb.key_rlc),
            !.sel2 = IF p.is_leaf_in_first_level = 1 THEN 0
                     ELSE Add(Mul(Sub(1, p.is_first_storage_level), pb.key_mult),
                              p.is_first_storage_level) ]

\* branch rows the rotations of a first-level leaf can land in: a branch on the
\* path of the example key and a placeholder branch
OtherBranchRows ==
    [ x \in Randomness |->
          << PathBranch(ExampleKey, 2, x), PlaceholderBranch(ExampleKey, 1, x, TRUE) >> ]

\* a LEAF_VALUE row: s_main.rlp1, s_main.rlp2 and s_main.bytes
ValueRow(b1, b2, b3) ==
    [ s_rlp1 |-> b1, s_rlp2 |-> b2, bytes |-> Pad(<< b3 >>, HASH_WIDTH) ]

NoGroup ==
    [ ext_key_rlc |-> 0, mult_diff |-> 0, drifted_pos |-> 0, is_ext_one_nibble |-> 0,
      other_key_rlc |-> 0, value_s |-> ValueRow(0, 0, 0), value_c |-> ValueRow(0, 0, 0),
      s_mod_node_hash_rlc |-> 0, c_mod_node_hash_rlc |-> 0 ]

\* the key with nibble i replaced by the next nibble value
SiblingKey(kb, i) ==
    LET j == (i + 1) \div 2
        v == (Nibble(kb, i) + 1) % 16
    IN  [ kb EXCEPT ![j] = IF i % 2 = 1 THEN v * 16 + (kb[j] % 16)
                           ELSE (kb[j] \div 16) * 16 + v ]

\* the other cells of the group of a leaf below n branches that are on the
\* path of its key: the two LEAF_KEY rows hold the same key
HonestGroup(kb, n, l, x) ==
    [ ext_key_rlc         |-> IF n = 0 THEN 0 ELSE BranchKey(kb, n - 1, x).key_rlc,
      mult_diff           |-> IF n = 0 THEN 0 ELSE 1,
      drifted_pos         |-> IF n = 0 THEN 0 ELSE Nibble(kb, n),
      is_ext_one_nibble   |-> 0,
      other_key_rlc       |-> l.key_rlc,
      value_s             |-> ValueRow(130, 171, 205),
      value_c             |-> ValueRow(5, 0, 0),
      s_mod_node_hash_rlc |-> KeccakRlc(drifted_leaf_rlc(l, ValueRow(130, 171, 205), x)),
      c_mod_node_hash_rlc |-> KeccakRlc(drifted_leaf_rlc(l, ValueRow(5, 0, 0), x)) ]

\* the other cells of the group of a leaf that drifts into the branch added
\* below n branches: the placeholder side holds the leaf and its value, the
\* other side the leaf of the sibling key, and the placeholder branch the
\* hash of the drifted leaf d at drifted_pos
HonestGroupAfterPlaceholder(kb, n, d, side_s, x) ==
    LET v == ValueRow(130, 171, 205)
        w == ValueRow(5, 0, 0)
        h == KeccakRlc(drifted_leaf_rlc(d, v, x))
        o == KeccakRlc(Add(h, 1))
    IN  [ ext_key_rlc         |-> BranchKey(kb, n, x).key_rlc,
          mult_diff           |-> 1,
          drifted_pos         |-> Nibble(kb, n + 1),
          is_ext_one_nibble   |-> 0,
          other_key_rlc       |-> KeyRlcDirect(SiblingKey(kb, n + 1), x),
          value_s             |-> IF side_s THEN v ELSE w,
          value_c             |-> IF side_s THEN w ELSE v,
          s_mod_node_hash_rlc |-> IF side_s THEN h ELSE o,
          c_mod_node_hash_rlc |-> IF side_s THEN o ELSE h ]

\* words are pairs << lo, hi >> of their two halves
WordZero == << 0, 0 >>

\* no transaction has begun
NoTransaction ==
    [ status |-> "idle", code |-> << >>, pc |-> 0, stack |-> << >>,
      rw_counter |-> 1, reversible_write_counter |-> 0, gas_left |-> 0,
      rws |-> << >>, storage |-> [ key |-> WordZero, value |-> WordZero ],
      access_list |-> {},
      call |-> [ tx_id |-> 0, call_id |-> 0, address |-> 0, is_persistent |-> 0,
                 rw_counter_end_of_reversion |-> 0 ],
      steps |-> << >> ]

\* no child row has been passed, nothing has been converted and no
\* CellManager has been made
NoChild == [ status |-> "none" ]
NoUnroller == [ status |-> "none" ]
NoCellManager == [ status |-> "none" ]

Init ==
    /\ r \in Randomness
    /\ grp = NoGroup
    /\ is_s = TRUE
    /\ br = NoBranch
    /\ pbr = NoBranch
    /\ pos = NoPosition
    /\ leaf = EmptyRow
    /\ drifted = EmptyRow
    /\ tampered = 0
    /\ phase = "empty"
    /\ verdict = [ leaf |-> FALSE, drifted |-> FALSE ]
    /\ rows = << >>
    /\ forged = 0
    /\ proof_values = ProofValuesDefault
    /\ path = [ key |-> 0, depth |-> 0, branches |-> 0 ]
    /\ evm = NoTransaction
    /\ child = NoChild
    /\ unroller = NoUnroller
    /\ cell_manager = NoCellManager

\* a leaf below n branches, none of them a placeholder
AssignLeafGroup(k, n, form, side_s) ==
    /\ phase = "empty"
    /\ n >= 63 => form = "short"
    /\ is_s' = side_s
    /\ br' = PathBranch(KeyBytes(k), n, r)
    /\ pbr' = IF n = 0 THEN NoBranch ELSE PathBranch(KeyBytes(k), n - 1, r)
    /\ pos' = PositionCells(n)
    /\ leaf' = HonestLeaf(KeyBytes(k), n, form, pbr', pos', r)
    /\ drifted' = EmptyRow
    /\ grp' = HonestGroup(KeyBytes(k), n, leaf', r)
    /\ phase' = "assigned"
    /\ UNCHANGED << child, unroller, cell_manager, evm, path, proof_values, rows, forged, r, tampered, verdict >>

\* a leaf below n branches and a placeholder branch on its side; the drifted
\* row holds the same leaf one level deeper
AssignLeafGroupAfterPlaceholder(k, n, form, side_s) ==
    /\ phase = "empty"
    /\ n <= 63
    /\ is_s' = side_s
    /\ br' = PlaceholderBranch(KeyBytes(k), n, r, side_s)
    /\ pbr' = PathBranch(KeyBytes(k), n, r)
    /\ pos' = PositionCells(n + 1)
    /\ leaf' = HonestLeaf(KeyBytes(k), n, form, pbr', pos', r)
    /\ drifted' = WithAcc(LeafBytes(KeyPart(KeyBytes(k), n + 1), form), r)
    /\ grp' = HonestGroupAfterPlaceholder(KeyBytes(k), n, drifted', side_s, r)
    /\ phase' = "assigned"
    /\ UNCHANGED << child, unroller, cell_manager, evm, path, proof_values, rows, forged, r, tampered, verdict >>

-----------------------------------------------------------------------------
(* The prover overwrites a cell: any witness within MaxTamper cells of a   *)
(* well-formed one is reachable.                                           *)

ByteCells == {"s_rlp1", "s_rlp2", "c_rlp1", "c_rlp2"}
FieldCells == {"acc_rlc", "key_rlc", "sel1", "sel2"}
FlagCells == {"flag1", "flag2"}
FlagValues == {0, 1, 2}
Deltas == {-1, 1}
\* payload positions the prover overwrites: the length / prefix bytes and
\* the first key byte
TamperPositions == {1, 2, 3}
BranchFieldCells == {"nibbles_count", "key_rlc", "key_mult"}

CanTamper == phase = "assigned" /\ tampered < MaxTamper

Tampered == /\ tampered' = tampered + 1
            /\ UNCHANGED << child, unroller, cell_manager, evm, path, proof_values, rows, forged, r, is_s, grp, phase, verdict >>

\* the prover either leaves acc_s.rlc as it was or recomputes it over the
\* changed row
Refreshed(l, refresh, x) == IF refresh THEN WithAcc(l, x) ELSE l

TamperLeafByte ==
    /\ CanTamper
    /\ \E f \in ByteCells, d \in Deltas, refresh \in BOOLEAN :
           leaf' = Refreshed([ leaf EXCEPT ![f] = (@ + d) % 256 ], refresh, r)
    /\ Tampered
    /\ UNCHANGED << br, pbr, pos, drifted >>

TamperLeafPayload ==
    /\ CanTamper
    /\ \E i \in TamperPositions, d \in Deltas, refresh \in BOOLEAN :
           leaf' = Refreshed([ leaf EXCEPT !.bytes[i] = (@ + d) % 256 ], refresh, r)
    /\ Tampered
    /\ UNCHANGED << br, pbr, pos, drifted >>

TamperLeafFlag ==
    /\ CanTamper
    /\ \E f \in FlagCells, v \in FlagValues, refresh \in BOOLEAN :
           /\ v # leaf[f]
           /\ leaf' = Refreshed([ leaf EXCEPT ![f] = v ], refresh, r)
    /\ Tampered
    /\ UNCHANGED << br, pbr, pos, drifted >>

TamperLeafField ==
    /\ CanTamper
    /\ \E f \in FieldCells, d \in Deltas :
           leaf' = [ leaf EXCEPT ![f] = F(@ + d) ]
    /\ Tampered
    /\ UNCHANGED << br, pbr, pos, drifted >>

\* key_rlc of the leaf row is a copy of the accumulator of the branch above
TamperLeafKeyRlcCopy ==
    /\ CanTamper
    /\ leaf.key_rlc # br.key_rlc
    /\ leaf' = [ leaf EXCEPT !.key_rlc = br.key_rlc ]
    /\ Tampered
    /\ UNCHANGED << br, pbr, pos, drifted >>

TamperBranchField ==
    /\ CanTamper
    /\ \E f \in BranchFieldCells, d \in Deltas :
           \/ br' = [ br EXCEPT ![f] = F(@ + d) ] /\ pbr' = pbr
           \/ pbr' = [ pbr EXCEPT ![f] = F(@ + d) ] /\ br' = br
    /\ Tampered
    /\ UNCHANGED << pos, leaf, drifted >>

\* c16 and c1 are swapped: exactly one of them stays set
TamperBranchParity ==
    /\ CanTamper
    /\ \/ br' = [ br EXCEPT !.c16 = br.c1, !.c1 = br.c16 ] /\ pbr' = pbr
       \/ pbr' = [ pbr EXCEPT !.c16 = pbr.c1, !.c1 = pbr.c16 ] /\ br' = br
    /\ br' # br \/ pbr' # pbr
    /\ Tampered
    /\ UNCHANGED << pos, leaf, drifted >>

TamperPlaceholder ==
    /\ CanTamper
    /\ \/ br' = [ br EXCEPT !.is_s_placeholder = 1 - @ ]
       \/ br' = [ br EXCEPT !.is_c_placeholder = 1 - @ ]
    /\ Tampered
    /\ UNCHANGED << pbr, pos, leaf, drifted >>

TamperPosition ==
    /\ CanTamper
    /\ \/ pos' = [ pos EXCEPT !.is_leaf_in_first_level = 1 - @ ]
       \/ pos' = [ pos EXCEPT !.is_first_storage_level = 1 - @ ]
    /\ Tampered
    /\ UNCHANGED << br, pbr, leaf, drifted >>

TamperDriftedFlag ==
    /\ CanTamper
    /\ \E f \in FlagCells, v \in FlagValues :
           /\ v # drifted[f]
           /\ drifted' = [ drifted EXCEPT ![f] = v ]
    /\ Tampered
    /\ UNCHANGED << br, pbr, pos, leaf >>

TamperDriftedByte ==
    /\ CanTamper
    /\ \E f \in ByteCells, d \in Deltas :
           drifted' = [ drifted EXCEPT ![f] = (@ + d) % 256 ]
    /\ Tampered
    /\ UNCHANGED << br, pbr, pos, leaf >>

-----------------------------------------------------------------------------
(* The gates are evaluated over the assigned rows *)

Verify ==
    /\ phase = "assigned"
    /\ verdict' = [ leaf    |-> LeafKeyAccepted(leaf, br, pbr, pos, is_s, r),
                    drifted |-> DriftedAccepted(drifted, br, pbr, pos, grp,
                                                IF is_s THEN leaf.key_rlc
                                                ELSE grp.other_key_rlc,
                                                IF is_s THEN grp.other_key_rlc
                                                ELSE leaf.key_rlc, r) ]
    /\ phase' = "verified"
    /\ UNCHANGED << child, unroller, cell_manager, evm, path, proof_values, rows, forged, r, is_s, br, pbr, pos, leaf, drifted, grp, tampered >>

Next ==
    \/ \E k \in 1..NumKeys, n \in Depths, form \in Forms, side_s \in BOOLEAN :
           AssignLeafGroup(k, n, form, side_s)
    \/ \E k \in 1..NumKeys, n \in Depths, form \in Forms, side_s \in BOOLEAN :
           AssignLeafGroupAfterPlaceholder(k, n, form, side_s)
    \/ TamperLeafByte
    \/ TamperLeafPayload
    \/ TamperLeafFlag
    \/ TamperLeafField
    \/ TamperLeafKeyRlcCopy
    \/ TamperBranchField
    \/ TamperBranchParity
    \/ TamperPlaceholder
    \/ TamperPosition
    \/ TamperDriftedFlag
    \/ TamperDriftedByte
    \/ Verify

Spec == Init /\ [][Next]_vars

-----------------------------------------------------------------------------
(* The leaf group as LeafKeyInAddedBranchChip sees it: the prover also      *)
(* overwrites the cells only this chip reads.                               *)

GroupFieldCells ==
    { "ext_key_rlc", "mult_diff", "drifted_pos", "is_ext_one_nibble", "other_key_rlc",
      "s_mod_node_hash_rlc", "c_mod_node_hash_rlc" }
ValueRows == { "value_s", "value_c" }
DriftedFieldCells == { "acc_rlc", "acc_mult" }

TamperedGroup == /\ tampered' = tampered + 1
                 /\ UNCHANGED << child, unroller, cell_manager, evm, path, proof_values, rows, forged, r, is_s, br, pbr, pos, leaf, phase, verdict >>

\* a leaf without a branch above it: the rotations into the branch rows land
\* in rows of the account proof, whose cells are unrelated to the leaf
AssignFirstLevelGroup(k, form, side_s, i) ==
    /\ phase = "empty"
    /\ is_s' = side_s
    /\ br' = OtherBranchRows[r][i]
    /\ pbr' = OtherBranchRows[r][3 - i]
    /\ pos' = PositionCells(0)
    /\ leaf' = HonestLeaf(KeyBytes(k), 0, form, pbr', pos', r)
    /\ drifted' = EmptyRow
    /\ grp' = HonestGroup(KeyBytes(k), 0, leaf', r)
    /\ phase' = "assigned"
    /\ UNCHANGED << child, unroller, cell_manager, evm, path, proof_values, rows, forged, r, tampered, verdict >>

\* depths at which the prover fills the drifted row below a branch that is
\* no placeholder: the branch at depth 2 has c1 set
StaleDepths == {2}

\* a leaf below n branches, none of them a placeholder, whose LEAF_DRIFTED
\* row the prover fills with the row of the leaf one level deeper
AssignLeafGroupWithDriftedRow(k, n, form) ==
    /\ phase = "empty"
    /\ is_s' = TRUE
    /\ br' = PathBranch(KeyBytes(k), n, r)
    /\ pbr' = PathBranch(KeyBytes(k), n - 1, r)
    /\ pos' = PositionCells(n)
    /\ leaf' = HonestLeaf(KeyBytes(k), n, form, pbr', pos', r)
    /\ drifted' = WithAcc(LeafBytes(KeyPart(KeyBytes(k), n + 1), form), r)
    /\ grp' = HonestGroup(KeyBytes(k), n, leaf', r)
    /\ phase' = "assigned"
    /\ UNCHANGED << child, unroller, cell_manager, evm, path, proof_values, rows, forged, r, tampered, verdict >>

TamperGroupCell ==
    /\ CanTamper
    /\ \E f \in GroupFieldCells, d \in Deltas : grp' = [ grp EXCEPT ![f] = F(@ + d) ]
    /\ drifted' = drifted
    /\ TamperedGroup

TamperValueRow ==
    /\ CanTamper
    /\ \E v \in ValueRows, d \in Deltas :
           \/ grp' = [ grp EXCEPT ![v].s_rlp1 = (@ + d) % 256 ]
           \/ grp' = [ grp EXCEPT ![v].s_rlp2 = (@ + d) % 256 ]
           \/ grp' = [ grp EXCEPT ![v].bytes[1] = (@ + d) % 256 ]
    /\ drifted' = drifted
    /\ TamperedGroup

TamperDriftedField ==
    /\ CanTamper
    /\ \E f \in DriftedFieldCells, d \in Deltas :
           drifted' = [ drifted EXCEPT ![f] = F(@ + d) ]
    /\ grp' = grp
    /\ TamperedGroup

\* a byte of the drifted row is changed, and with it or without it the
\* accumulator of the row and the hash the branch holds for the leaf
TamperDriftedPayload ==
    /\ CanTamper
    /\ \E i \in TamperPositions, d \in Deltas, refresh \in BOOLEAN :
           /\ drifted' = Refreshed([ drifted EXCEPT !.bytes[i] = (@ + d) % 256 ],
                                   refresh, r)
           /\ grp' = IF refresh
                     THEN [ grp EXCEPT
                              !.s_mod_node_hash_rlc =
                                  IF br.is_s_placeholder = 1
                                  THEN KeccakRlc(drifted_leaf_rlc(drifted', grp.value_s, r))
                                  ELSE @,
                              !.c_mod_node_hash_rlc =
                                  IF br.is_c_placeholder = 1
                                  THEN KeccakRlc(drifted_leaf_rlc(drifted', grp.value_c, r))
                                  ELSE @ ]
                     ELSE grp
    /\ TamperedGroup

\* key.rlc of the LEAF_KEY row on the leaf's side
TamperLeafKeyRlc ==
    /\ CanTamper
    /\ \E d \in Deltas : leaf' = [ leaf EXCEPT !.key_rlc = F(@ + d) ]
    /\ Tampered
    /\ UNCHANGED << br, pbr, pos, drifted >>

\* key.mult of the branch above the branch above the leaf (Rotation(-30))
TamperBranchRlcMult ==
    /\ CanTamper
    /\ \E d \in Deltas : pbr' = [ pbr EXCEPT !.key_mult = F(@ + d) ]
    /\ Tampered
    /\ UNCHANGED << br, pos, leaf, drifted >>

NextDrifted ==
    \/ \E k \in 1..NumKeys, n \in Depths, form \in Forms, side_s \in BOOLEAN :
           AssignLeafGroup(k, n, form, side_s)
    \/ \E k \in 1..NumKeys, n \in Depths, form \in Forms, side_s \in BOOLEAN :
           AssignLeafGroupAfterPlaceholder(k, n, form, side_s)
    \/ \E k \in 1..NumKeys, form \in Forms, side_s \in BOOLEAN, i \in 1..2 :
           AssignFirstLevelGroup(k, form, side_s, i)
    \/ \E k \in 1..NumKeys, n \in StaleDepths, form \in Forms :
           AssignLeafGroupWithDriftedRow(k, n, form)
    \/ TamperGroupCell
    \/ TamperValueRow
    \/ TamperDriftedField
    \/ TamperDriftedPayload
    \/ TamperDriftedFlag
    \/ TamperDriftedByte
    \/ TamperLeafKeyRlc
    \/ TamperPlaceholder
    \/ TamperPosition
    \/ TamperBranchParity
    \/ TamperBranchRlcMult
    \/ Verify

SpecDrifted == Init /\ [][NextDrifted]_vars

-----------------------------------------------------------------------------
(* BranchConfig: the constraints on the order of the branch rows.  A row   *)
(* of `rows` holds the cells of BranchCols these constraints read.  The    *)
(* prover assigns one row after the other; every rotation of the gate      *)
(* looks backwards, so a row stays when the constraints enabled at it      *)
(* hold.  The cells of the rows above the first row are unassigned (0),    *)
(* and q_not_first disables the gate at the first row.                     *)

ARITY == 16
\* rows of one assignment
MaxRows == 20
\* BranchCols cells the prover may set to a value of its own choice
MaxForged == 1
\* the values of modified_node the witness is built for
ModifiedNodes == {0, 1, 15}

\* Branch { ..Default::default() }: a row that is no branch row
NoBranchRow ==
    [ is_init |-> 0, is_child |-> 0, is_last_child |-> 0,
      node_index |-> 0, is_modified |-> 0, modified_index |-> 0 ]

\* Branch { is_branch_init: true, ..Default::default() }
BranchInitRow == [ NoBranchRow EXCEPT !.is_init = 1 ]

\* the branch child row the witness pass assigns after the row prev:
\* pv.node_index restarts at 0 after the init row and grows by one per child;
\* m is pv.modified_node, read at the init row
BranchChildRow(prev, m) ==
    LET n == IF prev.is_child = 1 THEN prev.node_index + 1 ELSE 0
        mi == IF prev.is_child = 1 THEN prev.modified_index ELSE m
    IN  [ is_init |-> 0, is_child |-> 1,
          is_last_child |-> IF n = ARITY - 1 THEN 1 ELSE 0,
          node_index |-> n,
          is_modified |-> IF n = mi THEN 1 ELSE 0,
          modified_index |-> mi ]

\* or::expr([a, b])
or_expr(a, b) == Sub(1, Mul(Sub(1, a), Sub(1, b)))

\* "Check that `is_modified` is enabled for the correct branch child."
is_modified_at_modified_index(cur) ==
    Mul(cur.is_child, Mul(cur.is_modified, Sub(cur.node_index, cur.modified_index)))

\* "`modified_index` needs to be the same for all branch children."
modified_index_same(prev, cur) ==
    Mul(cur.is_child,
        Mul(cur.node_index, Sub(cur.modified_index, prev.modified_index)))

\* "If we have a branch child, we can only have branch child or branch init
\* in the previous row."
child_after_child_or_init(prev, cur) ==
    Mul(cur.is_child, Sub(or_expr(prev.is_child, prev.is_init), 1))

\* "`node_index` increases by 1 for each branch child", enabled "When
\* `node_index` != 0"
node_index_increases(prev, cur) ==
    Mul(cur.is_child,
        Mul(cur.node_index, Sub(cur.node_index, Add(prev.node_index, 1))))

\* "First child when previous row is a branch init row"
first_child(prev, cur) ==
    << Mul(prev.is_init, Sub(cur.is_child, 1)),
       Mul(prev.is_init, cur.node_index) >>

\* "When `is_branch_child` changes back to 0, previous `node_index` needs to
\* be 15 and previous `is_last_child` needs to be 1."
is_branch_child_changes(prev, cur) ==
    LET delta == Sub(cur.is_child, prev.is_child)
    IN  << Mul(Sub(1, prev.is_init), Mul(delta, Sub(prev.node_index, ARITY - 1))),
           Mul(Sub(1, prev.is_init), Mul(delta, Sub(prev.is_last_child, 1))) >>

\* a!(ctx.branch.is_modified, -rot) summed over rot in from..ARITY - 1
RECURSIVE is_modified_values(_, _, _)
is_modified_values(rs, i, from) ==
    IF from >= ARITY THEN 0
    ELSE Add(IF i - from >= 1 THEN rs[i - from].is_modified ELSE 0,
             is_modified_values(rs, i, from + 1))

\* the gate without its count of the is_modified cells
is_modified_sum_unchecked(rs, i) == 0

\* "`is_modified` needs to be set to 1 at exactly 1 branch child"
is_modified_sum(rs, i) ==
    Mul(rs[i].is_last_child, Sub(is_modified_values(rs, i, 0), 1))

\* the polynomials of the gate at row i, i > 1, over the cells of `rows`
gate_branch(rs, i) ==
    << is_modified_at_modified_index(rs[i]),
       modified_index_same(rs[i - 1], rs[i]),
       child_after_child_or_init(rs[i - 1], rs[i]),
       node_index_increases(rs[i - 1], rs[i]),
       is_modified_sum(rs, i) >>
    \o first_child(rs[i - 1], rs[i])
    \o is_branch_child_changes(rs[i - 1], rs[i])

\* q_not_first is 0 at the first row and 1 at every other row
BranchRowAccepted(rs, i) == IF i = 1 THEN TRUE ELSE AllZero(gate_branch(rs, i))

\* the row before the one assigned next
PrevRow == IF rows = << >> THEN NoBranchRow ELSE rows[Len(rows)]

\* one more row is assigned and the gate holds at it
AssignBranchRow(row) ==
    /\ Len(rows) < MaxRows
    /\ rows' = Append(rows, row)
    /\ BranchRowAccepted(rows', Len(rows'))
    /\ UNCHANGED << child, unroller, cell_manager, evm, path, proof_values, forged, r, is_s, br, pbr, pos, leaf, drifted,
                    grp, tampered, phase, verdict >>

AssignBranchInit == AssignBranchRow(BranchInitRow)

AssignBranchChild(m) == AssignBranchRow(BranchChildRow(PrevRow, m))

\* an extension row, a leaf row or an account row
AssignOtherRow == AssignBranchRow(NoBranchRow)

\* the values the prover tries for a cell of a branch child row
ForgedValues ==
    [ is_last_child  |-> {0, 1},
      node_index     |-> 0..ARITY,
      is_modified    |-> {0, 1, 2, FieldModulus - 1},
      modified_index |-> ModifiedNodes ]

\* the prover sets one cell of the branch child row assigned last to another
\* value
ForgeBranchCell ==
    /\ forged < MaxForged
    /\ PrevRow.is_child = 1
    /\ \E f \in DOMAIN ForgedValues :
           \E v \in ForgedValues[f] :
               /\ v # rows[Len(rows)][f]
               /\ rows' = [ rows EXCEPT ![Len(rows)][f] = v ]
    /\ BranchRowAccepted(rows', Len(rows'))
    /\ forged' = forged + 1
    /\ UNCHANGED << child, unroller, cell_manager, evm, path, proof_values, r, is_s, br, pbr, pos, leaf, drifted, grp,
                    tampered, phase, verdict >>

NextBranch ==
    \/ AssignBranchInit
    \/ \E m \in ModifiedNodes : AssignBranchChild(m)
    \/ AssignOtherRow
    \/ ForgeBranchCell

SpecBranch == Init /\ [][NextBranch]_vars

-----------------------------------------------------------------------------
(* BranchConfig: the cells of the branch rows.  SpecChildren runs the      *)
(* witness pass over the rows of a proof, branch after branch (19 rows     *)
(* each: the init row, 16 child rows, two extension rows).  Before the     *)
(* gate is evaluated at a row the prover may set cells of the row to       *)
(* values of its own; the witness pass itself (proof_values) goes on from  *)
(* the witness rows.                                                       *)

RLP_HASH_VALUE == 160

\* the positions of the drifted leaf the witness is built for
DriftedNodes == {2}
\* the keys of the extension nodes above the branches, as nibbles: none, one
\* nibble, two nibbles, three nibbles
ExtKeys == { << >>, << 5 >>, << 10, 11 >>, << 9, 10, 11 >> }

\* The 32 bytes of s_main.bytes and of c_main.bytes are kept without the
\* zeros at their end: get_byte reads 0 behind the bytes listed.

\* the children of a branch with a placeholder that are neither the new
\* leaf nor the drifted leaf, in the witness rows with extra_child
ExtraNodes == {7}

\* the branches the witness rows describe: every modified_node with every
\* placeholder, every kind of extension node above one of them, and for
\* the branches with a placeholder and modified_node 0 the rows in which the
\* added branch has a third child
BranchInputs ==
    { w \in [ modified_node : ModifiedNodes,
              drifted_pos : ModifiedNodes \cup DriftedNodes,
              placeholder : {"none", "s", "c"},
              ext : ExtKeys,
              extra_child : BOOLEAN ] :
        /\ IF w.placeholder = "none"
           THEN w.drifted_pos = w.modified_node /\ ~w.extra_child
           ELSE /\ w.drifted_pos \in DriftedNodes \ {w.modified_node}
                /\ w.extra_child => w.modified_node = 0
        /\ w.ext # << >> => w.placeholder = "none" /\ w.modified_node = 1 }

\* "when `BRANCH.IS_CHILD` row presents a nil node, there is only one byte
\* non-zero: 128 at `s_main.bytes[0] / c_main.bytes[0]`"
NilChild == [ rlp2 |-> 0, bytes |-> << 128 >> ]
\* a child given by its hash: 160 at rlp2 and the 32 bytes of the hash
HashedChild(t) ==
    [ rlp2 |-> RLP_HASH_VALUE,
      bytes |-> [ j \in 1..HASH_WIDTH |-> (37 * t + 11 * j) % 256 ] ]
\* a child shorter than 32 bytes stored as it is: 192 + its length first
ShortChild == [ rlp2 |-> 0, bytes |-> << 195, 1, 2, 3 >> ]

\* the child n of the branch w in the witness rows, on the S or on the C
\* side.  Without a placeholder the sides differ at modified_node only.
\* With a placeholder both sides show the added branch: the new leaf at
\* modified_node and the drifted leaf at drifted_pos; in the rows with
\* extra_child the added branch has a third child at ExtraNodes, and the side
\* of the placeholder shows the drifted leaf and that child
WitnessChild(w, n, side_s) ==
    LET m == w.modified_node
    IN  IF w.placeholder # "none"
        THEN IF n = m
             THEN IF w.extra_child /\ side_s = (w.placeholder = "s")
                  THEN NilChild ELSE HashedChild(2)
             ELSE IF n = w.drifted_pos THEN HashedChild(4)
             ELSE IF w.extra_child /\ n \in ExtraNodes THEN HashedChild(5)
             ELSE NilChild
        ELSE IF n = m
             THEN IF ~side_s THEN HashedChild(2)
                  ELSE IF m = ARITY - 1 THEN NilChild ELSE HashedChild(1)
             ELSE IF m = 0 /\ n \in 2..9 THEN HashedChild(n + 3)
             ELSE IF m = 1 /\ n = 3 THEN HashedChild(3)
             ELSE IF m = 1 /\ n = 5 THEN ShortChild
             ELSE NilChild

\* the number of bytes assign_branch_child takes off rlp_len_rem for a child
child_len(rlp2, byte0) ==
    IF rlp2 = 160 THEN 33
    ELSE IF rlp2 = 0 /\ byte0 > 192 THEN 1 + (byte0 - 192)
    ELSE IF rlp2 = 0 THEN 1
    ELSE 0

\* rlp_len_rem as assign_branch_init reads it from the three bytes at
\* BRANCH_0_S_START / BRANCH_0_C_START
branch_len(l) ==
    IF l[1] = 249 THEN l[2] * 256 + l[3]
    ELSE IF l[1] = 248 THEN l[2]
    ELSE l[1] - 192

\* the RLP list header of a branch of `total` bytes, padded to three bytes
RlpListHeader(total) ==
    IF total <= 55 THEN << 192 + total, 0, 0 >>
    ELSE IF total <= 255 THEN << 248, total, 0 >>
    ELSE << 249, total \div 256, total % 256 >>

\* the length of the branch of the witness rows: its children and the one
\* byte of its value node
RECURSIVE WitnessBranchLen(_, _, _)
WitnessBranchLen(w, side_s, n) ==
    IF n >= ARITY THEN 1
    ELSE LET c == WitnessChild(w, n, side_s)
         IN  child_len(c.rlp2, c.bytes[1]) + WitnessBranchLen(w, side_s, n + 1)

\* bytes_into_rlc: b[0] + b[1] r + b[2] r^2 + ...
bytes_into_rlc(bytes, x) ==
    IF bytes = << >> THEN 0
    ELSE Add(bytes[1], FoldRange(bytes, 1, Len(bytes) - 1, 1, 1, x))

\* the hex-prefix encoding of the nibbles of an extension key: behind 16 +
\* the first nibble when their number is odd, behind a byte 0 when even
HexPrefix(nibs) ==
    IF Len(nibs) % 2 = 1
    THEN << 16 + nibs[1] >>
         \o [ j \in 1..((Len(nibs) - 1) \div 2) |-> nibs[2 * j] * 16 + nibs[2 * j + 1] ]
    ELSE << 0 >>
         \o [ j \in 1..(Len(nibs) \div 2) |-> nibs[2 * j - 1] * 16 + nibs[2 * j] ]

\* the bytes of the extension row S (witness[offset + 16] of the first
\* child) of an extension node with the key nibs and a hashed child: the
\* RLP list header, then the key, a single byte when it is one nibble
ExtRow(nibs) ==
    IF nibs = << >> THEN << >>
    ELSE IF Len(nibs) = 1 THEN << 226 >> \o HexPrefix(nibs)
    ELSE LET k == HexPrefix(nibs)
             total == 1 + Len(k) + 1 + HASH_WIDTH
         IN  IF total < 56
             THEN << 192 + total, 128 + Len(k) >> \o k
             ELSE << 248, total, 128 + Len(k) >> \o k

\* the second nibbles the extension row C holds from S_START on, one for
\* every byte of a long key behind its first byte
ExtRowC(nibs) ==
    IF Len(nibs) <= 1 THEN << >>
    ELSE LET k == HexPrefix(nibs)
         IN  [ j \in 1..(Len(k) - 1) |-> k[j + 1] % 16 ]

\* row_ext.get_byte(j), 0 behind the bytes listed
get_byte(row, j) == IF j + 1 <= Len(row) THEN row[j + 1] ELSE 0

\* the nibbles of an extension node counted as those of a key of one nibble
ext_nibbles_of_one_nibble(row_ext) == 1

\* the number of nibbles of the extension node, as assign_branch_init reads
\* it from the extension row
ext_nibbles(row_ext) ==
    IF get_byte(row_ext, 1) <= 32 THEN 1
    ELSE IF get_byte(row_ext, 0) < 248
         THEN IF get_byte(row_ext, 2) = 0
              THEN ((get_byte(row_ext, 1) - 128) - 1) * 2
              ELSE (get_byte(row_ext, 1) - 128) * 2 - 1
         ELSE IF get_byte(row_ext, 3) = 0
              THEN ((get_byte(row_ext, 2) - 128) - 1) * 2
              ELSE (get_byte(row_ext, 2) - 128) * 2 - 1

\* mpt_config.compute_acc_and_mult: len bytes from get_byte(start) on are
\* folded into acc, the multiplier grows by r per byte
RECURSIVE compute_acc_and_mult(_, _, _, _, _, _)
compute_acc_and_mult(row, acc, mult, start, len, x) ==
    IF len <= 0 THEN [ acc |-> acc, mult |-> mult ]
    ELSE compute_acc_and_mult(row, Add(acc, Mul(get_byte(row, start), mult)),
                              Mul(mult, x), start + 1, len - 1, x)

\* the loop over the bytes of a long extension key whose nibbles straddle
\* the bytes of the key RLC: "extension_node_rlc += first_nibble * mult;
\* mult *= r; extension_node_rlc += second_nibble * 16 * mult"
RECURSIVE ext_nibble_pairs(_, _, _, _, _, _, _, _)
ext_nibble_pairs(ext_row, ext_row_c, key_len_pos, k, n, acc, mult, x) ==
    IF k >= n THEN [ acc |-> acc, mult |-> mult ]
    ELSE LET second_nibble == get_byte(ext_row_c, k)
             first_nibble ==
                 (get_byte(ext_row, key_len_pos + 2 + k) - second_nibble) \div 16
             m1 == Mul(mult, x)
         IN  ext_nibble_pairs(ext_row, ext_row_c, key_len_pos, k + 1, n,
                 Add(Add(acc, Mul(first_nibble, mult)),
                     Mul(Mul(second_nibble, 16), m1)),
                 m1, x)

\* assign_branch_child at pv.node_index == 0: the extension key, if any,
\* and the nibble modified_node are folded into the key RLC.  (mult_diff,
\* which only the extension rows read, is left out.)
BranchKeyUpdate(pv, ext_row, ext_row_c, x) ==
    LET p0 == [ pv EXCEPT !.extension_node_rlc = pv.key_rlc,
                          !.key_rlc_prev = pv.key_rlc,
                          !.key_rlc_mult_prev = pv.key_rlc_mult ]
        key_len_pos == IF get_byte(ext_row, 0) = 248 THEN 2 ELSE 1
        m == pv.modified_node
        rlc == p0.extension_node_rlc
        mult == p0.key_rlc_mult
        Set(e, k, ml, sel) ==
            [ p0 EXCEPT !.extension_node_rlc = e, !.key_rlc = k,
                        !.key_rlc_mult = ml, !.key_rlc_sel = sel ]
    IN  IF ~pv.is_extension_node
        THEN LET s == BranchKeyStep(p0, m, x)
             IN  [ p0 EXCEPT !.key_rlc = s.key_rlc,
                             !.key_rlc_mult = s.key_rlc_mult,
                             !.key_rlc_sel = s.key_rlc_sel ]
        ELSE IF pv.key_rlc_sel
        THEN IF pv.is_even /\ pv.is_long
             THEN LET key_len == get_byte(ext_row, key_len_pos) - 128 - 1
                      a == compute_acc_and_mult(ext_row, rlc, mult,
                                                key_len_pos + 2, key_len, x)
                  IN  Set(a.acc, Add(a.acc, Mul(Mul(m, 16), a.mult)), a.mult, FALSE)
             ELSE IF pv.is_odd /\ pv.is_long
             THEN LET e1 == Add(rlc, Mul(Mul(get_byte(ext_row, key_len_pos + 1) - 16,
                                             16), mult))
                      key_len == get_byte(ext_row, key_len_pos) - 128
                      a == ext_nibble_pairs(ext_row, ext_row_c, key_len_pos, 0,
                                            key_len - 1, e1, mult, x)
                  IN  Set(a.acc, Add(a.acc, Mul(m, a.mult)), Mul(a.mult, x), TRUE)
             ELSE IF pv.is_short
             THEN LET e1 == Add(rlc, Mul(Mul(get_byte(ext_row, 1) - 16, 16), mult))
                  IN  Set(e1, Add(e1, Mul(m, mult)), Mul(mult, x), TRUE)
             ELSE p0
        ELSE IF pv.is_even /\ pv.is_long
             THEN LET key_len == get_byte(ext_row, key_len_pos) - 128 - 1
                      a == ext_nibble_pairs(ext_row, ext_row_c, key_len_pos, 0,
                                            key_len, rlc, mult, x)
                  IN  Set(a.acc, Add(a.acc, Mul(m, a.mult)), Mul(a.mult, x), TRUE)
             ELSE IF pv.is_odd /\ pv.is_long
             THEN LET e1 == Add(rlc, Mul(get_byte(ext_row, key_len_pos + 1) - 16, mult))
                      key_len == get_byte(ext_row, key_len_pos) - 128
                      a == compute_acc_and_mult(ext_row, e1, Mul(mult, x),
                                                key_len_pos + 2, key_len - 1, x)
                  IN  Set(a.acc, Add(a.acc, Mul(Mul(m, 16), a.mult)), a.mult, FALSE)
             ELSE IF pv.is_short
             THEN LET e1 == Add(rlc, Mul(get_byte(ext_row, 1) - 16, mult))
                      m1 == Mul(mult, x)
                  IN  Set(e1, Add(e1, Mul(Mul(m, 16), m1)), m1, FALSE)
             ELSE p0

\* the cells of a row that BranchConfig reads; all 0 in a row that is no
\* branch row.  The cells of the init row that the accessors of
\* BranchNodeInfo read (placeholder and not-hashed flags, extension flag,
\* nibble counter, the bytes of the RLP length) are named after them
NoDataRow ==
    [ is_init |-> 0, is_child |-> 0, is_last_child |-> 0, node_index |-> 0,
      is_modified |-> 0, modified_index |-> 0, is_drifted |-> 0,
      drifted_index |-> 0, is_extension_node_s |-> 0, is_extension_node_c |-> 0,
      s_mod_node_hash_rlc |-> 0, c_mod_node_hash_rlc |-> 0,
      s_rlp1 |-> 0, s_rlp2 |-> 0, s_bytes |-> << >>,
      c_rlp1 |-> 0, c_rlp2 |-> 0, c_bytes |-> << >>,
      key_rlc |-> 0, key_rlc_mult |-> 0,
      is_placeholder_s |-> 0, is_placeholder_c |-> 0,
      is_not_hashed_s |-> 0, is_not_hashed_c |-> 0,
      is_extension |-> 0, nibbles_counter |-> 0,
      s_len |-> Zeros(3), c_len |-> Zeros(3) ]

\* assign_branch_init for the branch w of the witness rows: proof_values
\* after it and the cells of the init row
InitStep(pv, w, x) ==
    LET m == w.modified_node
        ph_s == w.placeholder = "s"
        ph_c == w.placeholder = "c"
        ph == ph_s \/ ph_c
        d == w.drifted_pos
        s_len == RlpListHeader(WitnessBranchLen(w, TRUE, 0))
        c_len == RlpListHeader(WitnessBranchLen(w, FALSE, 0))
        is_ext == w.ext # << >>
        nibbles == pv.nibbles_num + 1
                   + (IF is_ext THEN ext_nibbles(ExtRow(w.ext)) ELSE 0)
        p == [ pv EXCEPT
                 !.modified_node = m,
                 !.node_index = 0,
                 !.drifted_pos = IF ph THEN d ELSE m,
                 !.s_mod_node_hash_rlc =
                     bytes_into_rlc(WitnessChild(w, IF ph_s THEN d ELSE m, TRUE).bytes, x),
                 !.c_mod_node_hash_rlc =
                     bytes_into_rlc(WitnessChild(w, IF ph_c THEN d ELSE m, FALSE).bytes, x),
                 !.is_branch_s_placeholder = ph_s,
                 !.is_branch_c_placeholder = ph_c,
                 !.rlp_len_rem_s = branch_len(s_len),
                 !.rlp_len_rem_c = branch_len(c_len),
                 !.is_even = is_ext /\ Len(w.ext) % 2 = 0,
                 !.is_odd = Len(w.ext) % 2 = 1,
                 !.is_short = Len(w.ext) = 1,
                 !.is_long = Len(w.ext) > 1,
                 !.is_extension_node = is_ext,
                 !.nibbles_num = nibbles,
                 !.witness = w ]
    IN  [ pv |-> p,
          row |-> [ NoDataRow EXCEPT
                      !.is_init = 1,
                      !.is_placeholder_s = IF ph_s THEN 1 ELSE 0,
                      !.is_placeholder_c = IF ph_c THEN 1 ELSE 0,
                      !.is_extension = IF is_ext THEN 1 ELSE 0,
                      !.nibbles_counter = nibbles,
                      !.s_len = s_len,
                      !.c_len = c_len ] ]

\* the key update at every child row
key_update_at_every_child(pv) == TRUE

\* "if pv.node_index == 0": the key RLC is updated at the first child only
key_update_at_first_child(pv) == pv.node_index = 0

\* assign_branch_child: proof_values after it and the cells of the child row
ChildStep(pv, x) ==
    LET n == pv.node_index
        s == WitnessChild(pv.witness, n, TRUE)
        c == WitnessChild(pv.witness, n, FALSE)
        p1 == [ pv EXCEPT
                  !.rlp_len_rem_s = @ - child_len(s.rlp2, s.bytes[1]),
                  !.rlp_len_rem_c = @ - child_len(c.rlp2, c.bytes[1]) ]
        p2 == IF key_update_at_first_child(pv)
              THEN BranchKeyUpdate(p1, ExtRow(pv.witness.ext), ExtRowC(pv.witness.ext), x)
              ELSE p1
    IN  [ pv |-> [ p2 EXCEPT !.node_index = n + 1 ],
          row |-> [ NoDataRow EXCEPT
                      !.is_child = 1,
                      !.is_last_child = IF n = ARITY - 1 THEN 1 ELSE 0,
                      !.node_index = n,
                      !.is_modified = IF n = pv.modified_node THEN 1 ELSE 0,
                      !.modified_index = pv.modified_node,
                      !.is_drifted = IF n = pv.drifted_pos THEN 1 ELSE 0,
                      !.drifted_index = pv.drifted_pos,
                      !.s_mod_node_hash_rlc = pv.s_mod_node_hash_rlc,
                      !.c_mod_node_hash_rlc = pv.c_mod_node_hash_rlc,
                      !.s_rlp1 = p1.rlp_len_rem_s,
                      !.s_rlp2 = s.rlp2,
                      !.s_bytes = s.bytes,
                      !.c_rlp1 = p1.rlp_len_rem_c,
                      !.c_rlp2 = c.rlp2,
                      !.c_bytes = c.bytes,
                      !.key_rlc = p2.key_rlc,
                      !.key_rlc_mult = p2.key_rlc_mult ] ]

\* the two extension rows behind the children
ExtensionStep(pv, side_s) ==
    LET e == IF side_s THEN ExtRow(pv.witness.ext) ELSE ExtRowC(pv.witness.ext)
    IN  [ pv |-> pv,
          row |-> IF side_s
                  THEN [ NoDataRow EXCEPT
                           !.is_extension_node_s = 1,
                           !.s_rlp1 = get_byte(e, 0),
                           !.s_rlp2 = get_byte(e, 1),
                           !.s_bytes = SubSeq(e, 3, Len(e)) ]
                  ELSE [ NoDataRow EXCEPT
                           !.is_extension_node_c = 1,
                           !.s_bytes = e ] ]

\* the cells at row i; the rows above the first row are unassigned
Cell(rs, i) == IF i >= 1 /\ i <= Len(rs) THEN rs[i] ELSE NoDataRow

\* ctx.main(is_s)
Main(row, side_s) ==
    IF side_s
    THEN [ rlp1 |-> row.s_rlp1, rlp2 |-> row.s_rlp2, bytes |-> row.s_bytes ]
    ELSE [ rlp1 |-> row.c_rlp1, rlp2 |-> row.c_rlp2, bytes |-> row.c_bytes ]

\* accs.mod_node_rlc(is_s)
mod_node_rlc(row, side_s) ==
    IF side_s THEN row.s_mod_node_hash_rlc ELSE row.c_mod_node_hash_rlc

\* BranchNodeInfo::is_placeholder: the placeholder flag of the side the info
\* was made for (set_is_s changes that side)
is_placeholder(init, side_s) ==
    IF side_s THEN init.is_placeholder_s ELSE init.is_placeholder_c

\* BranchNodeInfo::len: the length the RLP header of the branch declares
BranchNodeInfo_len(init, side_s) ==
    branch_len(IF side_s THEN init.s_len ELSE init.c_len)

\* BranchChildInfo::num_bytes: the RLP-encoded length of the child
num_bytes(row, side_s) ==
    child_len(Main(row, side_s).rlp2, get_byte(Main(row, side_s).bytes, 0))

\* BranchNodeInfo::is_at_tree_top: no branch lies above the branch of the
\* init row at row i
is_at_tree_top(rs, i) == IF i <= 1 THEN 1 ELSE 0

\* branch.nibbles_counter().prev(): the nibble counter of the init row of
\* the branch above
nibbles_counter_prev(rs, i) == Cell(rs, i - BRANCH_ROWS_NUM).nibbles_counter

\* require!(selector => bool)
bool_check(v) == Mul(v, Sub(1, v))

\* the nibble counter of an init row without any condition on it
nibbles_counter_unchecked(rs, i) == 0

\* "Update the nibble counter"
nibbles_counter_update(rs, i) ==
    LET cur == rs[i]
        prev_count == Mul(Sub(1, is_at_tree_top(rs, i)), nibbles_counter_prev(rs, i))
    IN  Mul(cur.is_init,
            Mul(Sub(1, cur.is_extension),
                Sub(cur.nibbles_counter, Add(prev_count, 1))))

\* the constraints under q_enable: "These selectors are only stored in
\* branch init rows"
gate_branch_init(rs, i) ==
    LET cur == rs[i]
    IN  << Mul(cur.is_init, bool_check(cur.is_placeholder_s)),
           Mul(cur.is_init, bool_check(cur.is_placeholder_c)),
           Mul(cur.is_init, bool_check(cur.is_not_hashed_s)),
           Mul(cur.is_init, bool_check(cur.is_not_hashed_c)),
           nibbles_counter_update(rs, i) >>

\* rlp1 without any condition on it
num_bytes_left_unchecked(prev, cur, side_s) == << >>

\* "Keep track of how many branch bytes we've processed."
num_bytes_left(prev, cur, side_s) ==
    LET left == Add(Mul(prev.is_init, BranchNodeInfo_len(prev, side_s)),
                    Mul(Sub(1, prev.is_init), Main(prev, side_s).rlp1))
    IN  << Mul(cur.is_child,
               Sub(Main(cur, side_s).rlp1, Sub(left, num_bytes(cur, side_s)))),
           Mul(cur.is_child,
               Mul(cur.is_last_child, Sub(Main(cur, side_s).rlp1, 1))) >>

\* "Check that `is_drifted` is enabled for the correct branch child."
is_drifted_at_drifted_index(cur) ==
    Mul(cur.is_child, Mul(cur.is_drifted, Sub(cur.node_index, cur.drifted_index)))

\* the children without any condition that ties a child to the one before
values_same_unchecked(prev, cur) == << >>

\* "Check values that need to remain the same for all branch children.":
\* drifted_index and mod_node_hash_rlc of both sides (modified_index is in
\* modified_index_same)
values_same(prev, cur) ==
    LET on == Mul(cur.is_child, cur.node_index)
    IN  << Mul(on, Sub(cur.drifted_index, prev.drifted_index)),
           Mul(on, Sub(cur.s_mod_node_hash_rlc, prev.s_mod_node_hash_rlc)),
           Mul(on, Sub(cur.c_mod_node_hash_rlc, prev.c_mod_node_hash_rlc)) >>

\* the children without any condition between their S and C bytes
s_equals_c_unchecked(cur) == << >>

\* "We check `s_main.rlp = c_main.rlp` everywhere except at
\* `modified_index`. (except rlp1 ...)": rlp2 and the 32 bytes
s_equals_c(cur) ==
    LET not_at_modification ==
            Mul(cur.is_child, Sub(cur.node_index, cur.modified_index))
    IN  << Mul(not_at_modification, Sub(cur.s_rlp2, cur.c_rlp2)) >>
        \o [ j \in 1..HASH_WIDTH |->
               Mul(not_at_modification,
                   Sub(get_byte(cur.s_bytes, j - 1), get_byte(cur.c_bytes, j - 1))) ]

\* the sum over the 16 rows up to row i of the cell f
RECURSIVE SumRot(_, _, _, _)
SumRot(rs, i, rot, f) ==
    IF rot >= ARITY THEN 0
    ELSE Add(Cell(rs, i - rot)[f], SumRot(rs, i, rot + 1, f))

\* the children without the count of the is_drifted cells
is_drifted_sum_unchecked(rs, i) == 0

\* "`is_drifted` needs to be set to 1 at exactly 1 branch child", under
\* branch.is_placeholder() of the BranchNodeInfo made with is_s = true
is_drifted_sum(rs, i) ==
    Mul(rs[i].is_last_child,
        Mul(is_placeholder(Cell(rs, i - ARITY), TRUE),
            Sub(SumRot(rs, i, 0, "is_drifted"), 1)))

\* the children without the count of their rlp2 cells
sum_rlp2_unchecked(rs, i, side_s) == 0

\* "we need to check that there are exactly two non-nil nodes":
\* sum_rlp2 == RLP_HASH_VALUE * 2 on the side whose branch is a placeholder
sum_rlp2(rs, i, side_s) ==
    Mul(rs[i].is_last_child,
        Mul(is_placeholder(Cell(rs, i - ARITY), side_s),
            Sub(SumRot(rs, i, 0, IF side_s THEN "s_rlp2" ELSE "c_rlp2"),
                RLP_HASH_VALUE * 2)))

\* the two constraints on mod_node_rlc of a side at the child row at
\* rotation -rot from the last child: "`is_drifted` `main.bytes` RLC is
\* stored in the placeholder `mod_node_hash_rlc`", else the RLC of the
\* bytes of the modified child
mod_node_rlc_at(rs, i, rot, side_s, x) ==
    LET init == Cell(rs, i - ARITY)
        row == Cell(rs, i - rot)
        ph == is_placeholder(init, side_s)
    IN  << Mul(rs[i].is_last_child,
               Mul(ph, Mul(row.is_drifted,
                   Sub(mod_node_rlc(row, side_s),
                       bytes_into_rlc(Main(row, ~side_s).bytes, x))))),
           Mul(rs[i].is_last_child,
               Mul(Sub(1, ph), Mul(row.is_modified,
                   Sub(mod_node_rlc(row, side_s),
                       bytes_into_rlc(Main(row, side_s).bytes, x))))) >>

RECURSIVE mod_node_rlc_children(_, _, _, _)
mod_node_rlc_children(rs, i, rot, x) ==
    IF rot >= ARITY THEN << >>
    ELSE mod_node_rlc_at(rs, i, rot, TRUE, x) \o mod_node_rlc_at(rs, i, rot, FALSE, x)
         \o mod_node_rlc_children(rs, i, rot + 1, x)

\* the polynomials of the gate at row i, i > 1, that gate_branch leaves out
gate_branch_children(rs, i, x) ==
    LET prev == rs[i - 1]
        cur == rs[i]
    IN  num_bytes_left(prev, cur, TRUE) \o num_bytes_left(prev, cur, FALSE)
        \o << is_drifted_at_drifted_index(cur) >>
        \o values_same(prev, cur)
        \o s_equals_c(cur)
        \o << is_drifted_sum(rs, i),
              sum_rlp2(rs, i, TRUE), sum_rlp2(rs, i, FALSE) >>
        \o (IF cur.is_last_child = 0 THEN << >>
            ELSE mod_node_rlc_children(rs, i, 0, x))

\* the gate holds at row i: the constraints under q_enable at every row,
\* those under q_not_first at every row but the first
DataRowAccepted(rs, i, x) ==
    IF ~AllZero(gate_branch_init(rs, i)) THEN FALSE
    ELSE IF i = 1 THEN TRUE
    ELSE IF ~AllZero(gate_branch(rs, i)) THEN FALSE
    ELSE AllZero(gate_branch_children(rs, i, x))

\* the values the prover tries for a cell of a row
ForgedCells(row) ==
    IF row.is_child = 1
    THEN { << "is_drifted", v >> : v \in {0, 1, 2} }
         \cup { << "drifted_index", v >> : v \in ModifiedNodes \cup DriftedNodes }
         \cup { << "modified_index", v >> : v \in ModifiedNodes }
         \cup { << "is_modified", v >> : v \in {0, 1} }
         \cup { << "s_mod_node_hash_rlc", Add(row.s_mod_node_hash_rlc, 1) >>,
                << "c_mod_node_hash_rlc", Add(row.c_mod_node_hash_rlc, 1) >>,
                << "s_rlp1", row.s_rlp1 + 32 >>, << "s_rlp1", 1 >>,
                << "c_rlp1", row.c_rlp1 + 32 >>, << "c_rlp1", 1 >>,
                << "s_rlp2", RLP_HASH_VALUE - row.s_rlp2 >>,
                << "c_rlp2", RLP_HASH_VALUE - row.c_rlp2 >>,
                << "s_bytes", [ row.s_bytes EXCEPT ![1] = 129 ] >>,
                << "c_bytes", [ row.c_bytes EXCEPT ![1] = 129 ] >>,
                << "s_bytes", [ Pad(row.s_bytes, HASH_WIDTH) EXCEPT ![HASH_WIDTH] = 7 ] >>,
                << "c_bytes", [ Pad(row.c_bytes, HASH_WIDTH) EXCEPT ![HASH_WIDTH] = 7 ] >> }
    ELSE IF row.is_init = 1
    THEN { << "is_placeholder_s", v >> : v \in {0, 1, 2} }
         \cup { << "is_placeholder_c", v >> : v \in {0, 1, 2} }
         \cup { << "nibbles_counter", row.nibbles_counter + 1 >>,
                << "nibbles_counter", 1 >>,
                << "s_len", RlpListHeader(branch_len(row.s_len) + 32) >>,
                << "c_len", RlpListHeader(branch_len(row.c_len) + 32) >> }
    ELSE { }

\* the rows that differ from the row of the witness pass in one cell
ForgeCell(row) ==
    { [ row EXCEPT ![c[1]] = c[2] ] : c \in { c \in ForgedCells(row) : row[c[1]] # c[2] } }

\* the rows the prover gets by setting k cells, one after the other
RECURSIVE Forge(_, _)
Forge(row, k) ==
    IF k = 0 THEN { row }
    ELSE UNION { Forge(f, k - 1) : f \in ForgeCell(row) }

\* the witness pass assigns one more row, the prover sets k of its cells,
\* and the gate holds at the row
AssignDataRow(step, k) ==
    /\ Len(rows) < MaxRows
    /\ k <= MaxForged - forged
    /\ \E row \in Forge(step.row, k) :
           /\ rows' = Append(rows, row)
           /\ DataRowAccepted(rows', Len(rows'), r)
    /\ proof_values' = step.pv
    /\ forged' = forged + k
    /\ UNCHANGED << child, unroller, cell_manager, evm, path, r, is_s, br, pbr, pos, leaf, drifted, grp, tampered,
                    phase, verdict >>

\* the row assigned last
LastRow == Cell(rows, Len(rows))

\* the rows of a proof in the order of the witness: a branch starts the
\* proof or follows the extension rows of the branch above
AssignInitRow(w, k) ==
    /\ IF rows = << >> THEN TRUE ELSE LastRow.is_extension_node_c = 1
    /\ AssignDataRow(InitStep(proof_values, w, r), k)

AssignChildRow(k) ==
    /\ LastRow.is_init + LastRow.is_child = 1
    /\ proof_values.node_index < ARITY
    /\ AssignDataRow(ChildStep(proof_values, r), k)

AssignExtensionRowS ==
    /\ LastRow.is_child = 1
    /\ proof_values.node_index = ARITY
    /\ AssignDataRow(ExtensionStep(proof_values, TRUE), 0)

AssignExtensionRowC ==
    /\ LastRow.is_extension_node_s = 1
    /\ AssignDataRow(ExtensionStep(proof_values, FALSE), 0)

NextChildren ==
    \/ \E w \in BranchInputs : \E k \in 0..MaxForged : AssignInitRow(w, k)
    \/ \E k \in 0..MaxForged : AssignChildRow(k)
    \/ AssignExtensionRowS
    \/ AssignExtensionRowC

SpecChildren == Init /\ [][NextChildren]_vars

-----------------------------------------------------------------------------
(* The witness pass down the path of a key: branch after branch, some of   *)
(* them below an extension node, and the leaf below the last branch        *)

\* the numbers of nibbles of the extension nodes on a path; from 42 nibbles
\* on the RLP of the extension node takes 56 bytes and starts with 248
ExtLens == {1, 2, 3, 4, 42, 43}

\* nibbles lo..hi of a key
KeyNibbles(kb, lo, hi) == [ j \in 1..(hi - lo + 1) |-> Nibble(kb, lo + j - 1) ]

\* the witness rows of the branch on the path of the key below depth
\* nibbles: the branch of an extension node with the next len nibbles
\* (len = 0: no extension node), modified at the nibble behind them
PathRows(kb, depth, len) ==
    [ modified_node |-> Nibble(kb, depth + len + 1),
      drifted_pos   |-> Nibble(kb, depth + len + 1),
      placeholder   |-> "none",
      ext           |-> KeyNibbles(kb, depth + 1, depth + len),
      extra_child   |-> FALSE ]

\* assign_branch_child over the children that are left
RECURSIVE assign_branch_children(_, _)
assign_branch_children(pv, x) ==
    IF pv.node_index >= ARITY THEN pv
    ELSE assign_branch_children(ChildStep(pv, x).pv, x)

\* the cells of the branch the leaf gates read, after the pass: the nibble
\* counter of the init row and the key RLC of the child rows as assigned;
\* the witness flags the nibble of the branch as the first (c16) or the
\* second (c1) nibble of its key byte
AssignedBranchCells(init, after) ==
    [ c16               |-> IF after.key_rlc_sel THEN 0 ELSE 1,
      c1                |-> IF after.key_rlc_sel THEN 1 ELSE 0,
      is_s_placeholder  |-> 0,
      is_c_placeholder  |-> 0,
      nibbles_count     |-> init.nibbles_counter,
      key_rlc           |-> after.key_rlc,
      key_mult          |-> after.key_rlc_mult ]

\* the pass over the rows of the next branch on the path of key k: the init
\* row, then the 16 children
PassBranch(k, len) ==
    /\ phase = "empty"
    /\ path.key \in {0, k}
    /\ path.depth + len + 1 <= 2 * HASH_WIDTH
    /\ LET init  == InitStep(proof_values, PathRows(KeyBytes(k), path.depth, len), r)
           after == assign_branch_children(init.pv, r)
       IN  /\ proof_values' = after
           /\ br' = AssignedBranchCells(init.row, after)
    /\ pbr' = br
    /\ path' = [ key |-> k, depth |-> path.depth + len + 1,
                 branches |-> IF path.branches = 0 THEN 1 ELSE 2 ]
    /\ UNCHANGED << child, unroller, cell_manager, evm, r, is_s, pos, leaf, drifted, grp, tampered, phase,
                    verdict, rows, forged >>

\* the leaf below the last branch holds the nibbles of the key that are left
PassLeaf(form) ==
    /\ phase = "empty"
    /\ path.branches >= 1
    /\ path.depth >= 2 * HASH_WIDTH - 1 => form = "short"
    /\ pos' = PositionCells(path.branches)
    /\ leaf' = HonestLeaf(KeyBytes(path.key), path.depth, form, pbr, pos', r)
    /\ verdict' = [ verdict EXCEPT
                      !.leaf = LeafKeyAccepted(leaf', br, pbr, pos', is_s, r) ]
    /\ phase' = "verified"
    /\ UNCHANGED << child, unroller, cell_manager, evm, path, proof_values, r, is_s, br, pbr, drifted, grp, tampered,
                    rows, forged >>

NextPath ==
    \/ \E k \in 1..NumKeys : \E len \in {0} \cup ExtLens : PassBranch(k, len)
    \/ \E form \in Forms : PassLeaf(form)

SpecPath == Init /\ [][NextPath]_vars

-----------------------------------------------------------------------------
(* SloadGadget: the SLOAD steps of a transaction that loads one storage    *)
(* key twice.  The rw operations of the steps come from the execution of   *)
(* the bytecode; the gadget looks its cells up in the rw table.            *)

\* key and value of the tests: 0x030201 and 0x060504, zero, and words with
\* both halves set
SloadKeys == { WordZero, << 197121, 0 >>, << 5, 9 >> }
SloadValues == { WordZero, << 394500, 0 >>, << 7, 3 >>, << 5, 9 >> }

\* test_ok: the two bytecodes, PUSH32 key; SLOAD twice, then STOP or
\* PUSH32 0; PUSH32 0; REVERT; every opcode with its program counter
Bytecode(key, persistent) ==
    << [ pc |-> 0, op |-> "PUSH32", arg |-> key ],
       [ pc |-> 33, op |-> "SLOAD", arg |-> WordZero ],
       [ pc |-> 34, op |-> "PUSH32", arg |-> key ],
       [ pc |-> 67, op |-> "SLOAD", arg |-> WordZero ] >>
    \o IF persistent
       THEN << [ pc |-> 68, op |-> "STOP", arg |-> WordZero ] >>
       ELSE << [ pc |-> 68, op |-> "PUSH32", arg |-> WordZero ],
               [ pc |-> 101, op |-> "PUSH32", arg |-> WordZero ],
               [ pc |-> 134, op |-> "REVERT", arg |-> WordZero ] >>

\* a row of the rw table
NoRw ==
    [ tag |-> "Start", is_write |-> FALSE, id |-> 0, address |-> 0, field |-> "",
      key |-> WordZero, value |-> WordZero, value_prev |-> WordZero,
      aux |-> WordZero ]

CallContextRead(call_id, field, value) ==
    [ NoRw EXCEPT !.tag = "CallContext", !.id = call_id, !.field = field,
                  !.value = value ]
\* the stack grows down from 1024: address is the stack pointer of the word
StackRw(call_id, is_write, stack_pointer, value) ==
    [ NoRw EXCEPT !.tag = "Stack", !.is_write = is_write, !.id = call_id,
                  !.address = stack_pointer, !.value = value ]
AccountStorageRead(tx_id, address, key, value, committed_value) ==
    [ NoRw EXCEPT !.tag = "AccountStorage", !.id = tx_id, !.address = address,
                  !.key = key, !.value = value, !.value_prev = value,
                  !.aux = committed_value ]
TxAccessListAccountStorageWrite(tx_id, address, key, value, value_prev) ==
    [ NoRw EXCEPT !.tag = "TxAccessListAccountStorage", !.is_write = TRUE,
                  !.id = tx_id, !.address = address, !.key = key,
                  !.value = value, !.value_prev = value_prev ]

Bool(b) == IF b THEN 1 ELSE 0
stack_pointer(e) == 1024 - Len(e.stack)
Top(stack) == stack[Len(stack)]
Pop(stack) == SubSeq(stack, 1, Len(stack) - 1)

\* the opcode at the program counter
OpAt(e) ==
    LET at == { i \in 1..Len(e.code) : e.code[i].pc = e.pc }
    IN  IF e.status = "running" /\ at # {}
        THEN e.code[CHOOSE i \in at : TRUE]
        ELSE [ pc |-> e.pc, op |-> "", arg |-> WordZero ]

\* the number of rw operations of a step, without the rows of a reversion
RwsOf(op) ==
    CASE op = "PUSH32" -> 1
      [] op = "SLOAD"  -> 8
      [] op = "REVERT" -> 3
      [] OTHER         -> 1

RECURSIVE SumRws(_, _)
SumRws(code, i) == IF i > Len(code) THEN 0 ELSE RwsOf(code[i].op) + SumRws(code, i + 1)

\* the number of reversible writes of the bytecode: one for every SLOAD
ReversibleWrites(code) == Cardinality({ i \in 1..Len(code) : code[i].op = "SLOAD" })

\* the call of the transaction: one account with the bytecode and the
\* storage (key, value); a call that ends with REVERT is not persistent and
\* the rows that revert its writes end at rw_counter_end_of_reversion
BeginTx(key, value, persistent) ==
    /\ evm.status = "idle"
    /\ LET code == Bytecode(key, persistent)
       IN  evm' = [ NoTransaction EXCEPT
                      !.status = "running",
                      !.code = code,
                      !.gas_left = 100000,
                      !.storage = [ key |-> key, value |-> value ],
                      !.call = [ tx_id |-> 1, call_id |-> 1, address |-> 16,
                                 is_persistent |-> Bool(persistent),
                                 rw_counter_end_of_reversion |->
                                     IF persistent THEN 0
                                     ELSE SumRws(code, 1) + ReversibleWrites(code) ] ]
    /\ UNCHANGED << child, unroller, cell_manager, path, proof_values, r, is_s, br, pbr, pos, leaf, drifted, grp,
                    tampered, phase, verdict, rows, forged >>

\* the rw operations of a SLOAD step, in the order of execution
sload_rws(e) ==
    LET key == Top(e.stack)
        value == IF key = e.storage.key THEN e.storage.value ELSE WordZero
    IN  << CallContextRead(e.call.call_id, "TxId", << e.call.tx_id, 0 >>),
           CallContextRead(e.call.call_id, "RwCounterEndOfReversion",
                           << e.call.rw_counter_end_of_reversion, 0 >>),
           CallContextRead(e.call.call_id, "IsPersistent",
                           << e.call.is_persistent, 0 >>),
           CallContextRead(e.call.call_id, "CalleeAddress", << e.call.address, 0 >>),
           StackRw(e.call.call_id, FALSE, stack_pointer(e), key),
           AccountStorageRead(e.call.tx_id, e.call.address, key, value, value),
           StackRw(e.call.call_id, TRUE, stack_pointer(e), value),
           TxAccessListAccountStorageWrite(e.call.tx_id, e.call.address, key,
               << 1, 0 >>, << Bool(key \in e.access_list), 0 >>) >>

\* is_warm assigned from the value the access list write puts in
assigned_is_warm_as_written(rws, rw_indices) == rws[rw_indices[7 + 1]].value[1]

\* "let (_, is_warm) = block.rws[step.rw_indices[7]].tx_access_list_value_pair()"
assigned_is_warm(rws, rw_indices) == rws[rw_indices[7 + 1]].value_prev[1]

\* the cells of the gadget with key and value taken from each other's rw
\* operation
assign_exec_step_key_from_push(rws, tx_id, call, rw_indices) ==
    [ tx_id           |-> tx_id,
      reversion_info  |-> [ rw_counter_end_of_reversion |->
                                call.rw_counter_end_of_reversion,
                            is_persistent |-> call.is_persistent ],
      callee_address  |-> call.address,
      key             |-> rws[rw_indices[6 + 1]].value,
      value           |-> rws[rw_indices[4 + 1]].value,
      committed_value |-> rws[rw_indices[5 + 1]].aux,
      is_warm         |-> assigned_is_warm(rws, rw_indices) ]

\* assign_exec_step: the cells of the gadget, from the transaction, the
\* call and the rw operations of the step
assign_exec_step(rws, tx_id, call, rw_indices) ==
    [ tx_id           |-> tx_id,
      reversion_info  |-> [ rw_counter_end_of_reversion |->
                                call.rw_counter_end_of_reversion,
                            is_persistent |-> call.is_persistent ],
      callee_address  |-> call.address,
      key             |-> rws[rw_indices[4 + 1]].value,
      value           |-> rws[rw_indices[6 + 1]].value,
      committed_value |-> rws[rw_indices[5 + 1]].aux,
      is_warm         |-> assigned_is_warm(rws, rw_indices) ]

\* SloadGasGadget: the gas cost of a warm and of a cold access
SloadGasGadget(is_warm) == IF is_warm = 1 THEN 100 ELSE 2100

\* the machine state the step state transition is about
StepState(e) ==
    [ rw_counter |-> e.rw_counter, program_counter |-> e.pc,
      stack_pointer |-> stack_pointer(e),
      reversible_write_counter |-> e.reversible_write_counter,
      gas_left |-> e.gas_left, call_id |-> e.call.call_id ]

\* the execution of PUSH32: the word is pushed
StepPush ==
    /\ OpAt(evm).op = "PUSH32"
    /\ LET e == [ evm EXCEPT !.stack = Append(@, OpAt(evm).arg) ]
       IN  evm' = [ e EXCEPT
                      !.rws = Append(@, StackRw(evm.call.call_id, TRUE,
                                                stack_pointer(e), OpAt(evm).arg)),
                      !.rw_counter = @ + 1,
                      !.pc = @ + 33,
                      !.gas_left = @ - 3 ]
    /\ UNCHANGED << child, unroller, cell_manager, path, proof_values, r, is_s, br, pbr, pos, leaf, drifted, grp,
                    tampered, phase, verdict, rows, forged >>

\* the execution of SLOAD and the assignment of its step: the key is
\* popped, the value of the storage pushed, the key put on the access list
StepSload ==
    /\ OpAt(evm).op = "SLOAD"
    /\ evm.stack # << >>
    /\ LET ops == sload_rws(evm)
           rws == evm.rws \o ops
           rw_indices == [ j \in 1..Len(ops) |-> Len(evm.rws) + j ]
           cells == assign_exec_step(rws, evm.call.tx_id, evm.call, rw_indices)
           after == [ evm EXCEPT
                        !.rws = rws,
                        !.stack = Append(Pop(@), ops[7].value),
                        !.access_list = @ \cup { ops[5].value },
                        !.rw_counter = @ + Len(ops),
                        !.reversible_write_counter = @ + 1,
                        !.pc = @ + 1,
                        !.gas_left = @ - SloadGasGadget(ops[8].value_prev[1]) ]
       IN  evm' = [ after EXCEPT
                      !.steps = Append(@, [ cells |-> cells,
                                            opcode |-> OpAt(evm).op,
                                            cur |-> StepState(evm),
                                            next |-> StepState(after) ]) ]
    /\ UNCHANGED << child, unroller, cell_manager, path, proof_values, r, is_s, br, pbr, pos, leaf, drifted, grp,
                    tampered, phase, verdict, rows, forged >>

\* the execution of STOP: the call ends and its writes stay
StepStop ==
    /\ OpAt(evm).op = "STOP"
    /\ evm' = [ evm EXCEPT
                  !.status = "halted",
                  !.rws = Append(@, CallContextRead(evm.call.call_id, "IsSuccess",
                                                    << 1, 0 >>)),
                  !.rw_counter = @ + 1 ]
    /\ UNCHANGED << child, unroller, cell_manager, path, proof_values, r, is_s, br, pbr, pos, leaf, drifted, grp,
                    tampered, phase, verdict, rows, forged >>

\* the rows that revert the reversible writes of the call, the last write
\* first: the write with reversible_write_counter k is reverted at
\* rw_counter_end_of_reversion - k
RECURSIVE Reversion(_, _)
Reversion(rws, i) ==
    IF i < 1 THEN << >>
    ELSE IF rws[i].tag = "TxAccessListAccountStorage"
         THEN << [ rws[i] EXCEPT !.value = rws[i].value_prev,
                                 !.value_prev = rws[i].value ] >>
              \o Reversion(rws, i - 1)
         ELSE Reversion(rws, i - 1)

\* the execution of REVERT: offset and length are popped, the call ends
\* and its writes are reverted
StepRevert ==
    /\ OpAt(evm).op = "REVERT"
    /\ Len(evm.stack) >= 2
    /\ LET own == << CallContextRead(evm.call.call_id, "IsSuccess", WordZero),
                     StackRw(evm.call.call_id, FALSE, stack_pointer(evm),
                             Top(evm.stack)),
                     StackRw(evm.call.call_id, FALSE, stack_pointer(evm) + 1,
                             Top(Pop(evm.stack))) >>
       IN  evm' = [ evm EXCEPT
                      !.status = "halted",
                      !.stack = Pop(Pop(@)),
                      !.rws = @ \o own \o Reversion(evm.rws, Len(evm.rws)),
                      !.rw_counter = @ + Len(own),
                      !.access_list = {} ]
    /\ UNCHANGED << child, unroller, cell_manager, path, proof_values, r, is_s, br, pbr, pos, leaf, drifted, grp,
                    tampered, phase, verdict, rows, forged >>

\* the row of the rw table with the rw_counter c
RwLookup(e, c) == IF c \in 1..Len(e.rws) THEN e.rws[c] ELSE NoRw

\* SloadGadget::configure: the lookups of the step into the rw table, at
\* the rw_counter of the step onwards in the order of the calls to the
\* constraint builder, the reverted write of a call that is not
\* persistent, and the step state transition
SloadGadget_configure(e, step) ==
    LET c == step.cells
        rwc == step.cur.rw_counter
        call_id == step.cur.call_id
        tx_id == << c.tx_id, 0 >>
        gas_cost == SloadGasGadget(c.is_warm)
    IN  /\ step.opcode = "SLOAD"
        /\ RwLookup(e, rwc) = CallContextRead(call_id, "TxId", tx_id)
        /\ RwLookup(e, rwc + 1)
               = CallContextRead(call_id, "RwCounterEndOfReversion",
                                 << c.reversion_info.rw_counter_end_of_reversion, 0 >>)
        /\ RwLookup(e, rwc + 2)
               = CallContextRead(call_id, "IsPersistent",
                                 << c.reversion_info.is_persistent, 0 >>)
        /\ RwLookup(e, rwc + 3)
               = CallContextRead(call_id, "CalleeAddress", << c.callee_address, 0 >>)
        /\ RwLookup(e, rwc + 4) = StackRw(call_id, FALSE, step.cur.stack_pointer, c.key)
        /\ RwLookup(e, rwc + 5)
               = AccountStorageRead(c.tx_id, c.callee_address, c.key, c.value,
                                    c.committed_value)
        /\ RwLookup(e, rwc + 6) = StackRw(call_id, TRUE, step.cur.stack_pointer, c.value)
        /\ c.is_warm \in {0, 1}
        /\ RwLookup(e, rwc + 7)
               = TxAccessListAccountStorageWrite(c.tx_id, c.callee_address, c.key,
                                                 << 1, 0 >>, << c.is_warm, 0 >>)
        /\ c.reversion_info.is_persistent = 0 =>
               RwLookup(e, c.reversion_info.rw_counter_end_of_reversion
                           - step.cur.reversible_write_counter)
                   = TxAccessListAccountStorageWrite(c.tx_id, c.callee_address, c.key,
                                                     << c.is_warm, 0 >>, << 1, 0 >>)
        /\ step.next.rw_counter = rwc + 8
        /\ step.next.program_counter = step.cur.program_counter + 1
        /\ step.next.reversible_write_counter = step.cur.reversible_write_counter + 1
        /\ step.next.gas_left = step.cur.gas_left - gas_cost
        /\ step.next.stack_pointer = step.cur.stack_pointer
        /\ step.next.call_id = step.cur.call_id

\* SloadGadget::configure: the rw operations the gadget looks up, built
\* from its cells in the order of the calls to the constraint builder; the
\* j-th is looked up at the rw_counter of the step + j - 1
rw_lookups(step) ==
    LET c == step.cells
        call_id == step.cur.call_id
    IN  << CallContextRead(call_id, "TxId", << c.tx_id, 0 >>),
           CallContextRead(call_id, "RwCounterEndOfReversion",
                           << c.reversion_info.rw_counter_end_of_reversion, 0 >>),
           CallContextRead(call_id, "IsPersistent",
                           << c.reversion_info.is_persistent, 0 >>),
           CallContextRead(call_id, "CalleeAddress", << c.callee_address, 0 >>),
           StackRw(call_id, FALSE, step.cur.stack_pointer, c.key),
           AccountStorageRead(c.tx_id, c.callee_address, c.key, c.value,
                              c.committed_value),
           StackRw(call_id, TRUE, step.cur.stack_pointer, c.value),
           TxAccessListAccountStorageWrite(c.tx_id, c.callee_address, c.key,
                                           << 1, 0 >>, << c.is_warm, 0 >>) >>

NextSload ==
    \/ \E key \in SloadKeys, value \in SloadValues, persistent \in BOOLEAN :
           BeginTx(key, value, persistent)
    \/ StepPush
    \/ StepSload
    \/ StepStop
    \/ StepRevert

SpecSload == Init /\ [][NextSload]_vars

-----------------------------------------------------------------------------
(* assign_branch_child on one child row: the length taken off rlp_len_rem, *)
(* node_mult_diff and the bytes folded into the branch accumulator, on the *)
(* S and on the C side                                                     *)

\* the first byte of a child: a byte that starts no list (0, 5, 127, 129,
\* 191), the empty child 128, the empty list 192 and lists of 1, 3 and 31
\* bytes
ChildFirstBytes == { 0, 5, 127, 128, 129, 191, 192, 193, 195, 223 }
ChildRlp2 == { 0, RLP_HASH_VALUE }

\* the build of the prover: integer overflow panics in a debug build and
\* wraps in a release build
Builds == { "debug", "release" }

\* one side of a child row: rlp2 and the HASH_WIDTH bytes
ChildSide(rlp2, b) ==
    [ rlp2 |-> rlp2,
      bytes |-> [ j \in 1..HASH_WIDTH |-> IF j = 1 THEN b ELSE (7 * j + b) % 256 ] ]

\* pv after the init row of a branch whose RLP starts with 248 81 on both
\* sides
AfterBranchInit(x) ==
    [ rlp_len_rem_s |-> 81, rlp_len_rem_c |-> 81,
      acc_s |-> Add(248, Mul(81, x)), acc_c |-> Add(248, Mul(81, x)),
      acc_mult_s |-> Mul(x, x), acc_mult_c |-> Mul(x, x) ]

\* "for _ in 0..len { node_mult_diff_s *= mpt_config.randomness; }"
RECURSIVE node_mult_diff(_, _)
node_mult_diff(len, x) ==
    IF len <= 0 THEN 1 ELSE Mul(node_mult_diff(len - 1, x), x)

\* the closure compute_branch_acc_and_mult on one side; folded counts the
\* bytes added to branch_acc, each of which multiplies branch_mult by r.
\* "row.get_byte(start) as usize - 192" overflows for a first byte below
\* 192: a debug build panics there, a release build wraps to a length
\* beyond the row and get_byte panics past its end.
compute_branch_acc_and_mult(side, branch_acc, branch_mult, x, build) ==
    LET first == get_byte(side.bytes, 0)
    IN  IF side.rlp2 = 0 /\ first = 128
        THEN [ acc |-> Add(branch_acc, Mul(128, branch_mult)),
               mult |-> Mul(branch_mult, x), folded |-> 1, panic |-> "" ]
        ELSE IF side.rlp2 = 160
        THEN LET f == compute_acc_and_mult(side.bytes,
                          Add(branch_acc, Mul(160, branch_mult)),
                          Mul(branch_mult, x), 0, HASH_WIDTH, x)
             IN  [ acc |-> f.acc, mult |-> f.mult, folded |-> 1 + HASH_WIDTH,
                   panic |-> "" ]
        ELSE IF first < 192
        THEN [ acc |-> Add(branch_acc, Mul(first, branch_mult)),
               mult |-> Mul(branch_mult, x), folded |-> 1,
               panic |-> IF build = "debug"
                         THEN "attempt to subtract with overflow"
                         ELSE "index out of bounds" ]
        ELSE LET len == first - 192
                 f == compute_acc_and_mult(side.bytes,
                          Add(branch_acc, Mul(first, branch_mult)),
                          Mul(branch_mult, x), 1, len, x)
             IN  [ acc |-> f.acc, mult |-> f.mult, folded |-> 1 + len,
                   panic |-> "" ]

\* assign_branch_child, its lengths and accumulators: len is taken off
\* rlp_len_rem and node_mult_diff built on both sides, then the closure
\* runs on S and, unless it panicked, on C
assign_branch_child_lens(row, pv, x, build) ==
    LET len_s == child_len(row.s.rlp2, get_byte(row.s.bytes, 0))
        len_c == child_len(row.c.rlp2, get_byte(row.c.bytes, 0))
        a_s == compute_branch_acc_and_mult(row.s, pv.acc_s, pv.acc_mult_s, x, build)
        a_c == IF a_s.panic # ""
               THEN [ acc |-> pv.acc_c, mult |-> pv.acc_mult_c, folded |-> 0,
                      panic |-> a_s.panic ]
               ELSE compute_branch_acc_and_mult(row.c, pv.acc_c, pv.acc_mult_c, x,
                                                build)
    IN  [ status |-> IF a_c.panic = "" THEN "assigned" ELSE "aborted",
          panic |-> a_c.panic,
          row |-> row,
          before |-> pv,
          rlp_len_rem_s |-> pv.rlp_len_rem_s - len_s,
          rlp_len_rem_c |-> pv.rlp_len_rem_c - len_c,
          node_mult_diff_s |-> node_mult_diff(len_s, x),
          node_mult_diff_c |-> node_mult_diff(len_c, x),
          s |-> a_s,
          c |-> a_c ]

\* the witness pass takes one child row below a branch init row
PassChildRow(s, c, build) ==
    /\ child.status = "none"
    /\ child' = assign_branch_child_lens([ s |-> s, c |-> c ], AfterBranchInit(r),
                                          r, build)
    /\ UNCHANGED << unroller, cell_manager, evm, path, proof_values, rows, forged,
                    r, is_s, br, pbr, pos, leaf, drifted, grp, tampered, phase,
                    verdict >>

NextChildLen ==
    \E s_rlp2 \in ChildRlp2, c_rlp2 \in ChildRlp2, s_first \in ChildFirstBytes,
       c_first \in ChildFirstBytes, build \in Builds :
        PassChildRow(ChildSide(s_rlp2, s_first), ChildSide(c_rlp2, c_first), build)

SpecChildLen == Init /\ [][NextChildLen]_vars

-----------------------------------------------------------------------------
(* BytecodeUnroller: its rows, and its construction from a Bytecode and    *)
(* from raw bytes                                                          *)

\* STOP, SLOAD, PUSH1 and PUSH2
CodeBytes == { 0, 84, 96, 97 }
MaxCodeLen == 3
Codes == UNION { [ 1..n -> CodeBytes ] : n \in 0..MaxCodeLen }

\* the frames of From<Vec<u8>>::from the stack has room for
MaxFrames == 3

\* the elements of a Bytecode: every byte with is_code, which is false for
\* the data bytes of a PUSH1..PUSH32 (96..127)
RECURSIVE code_elements(_, _, _)
code_elements(bytes, i, data_left) ==
    IF i > Len(bytes) THEN << >>
    ELSE IF data_left > 0
    THEN << [ value |-> bytes[i], is_code |-> FALSE ] >>
         \o code_elements(bytes, i + 1, data_left - 1)
    ELSE << [ value |-> bytes[i], is_code |-> TRUE ] >>
         \o code_elements(bytes, i + 1,
                          IF bytes[i] \in 96..127 THEN bytes[i] - 95 ELSE 0)

\* Bytecode::from(Vec<u8>), and codesize, hash and code_vec of a Bytecode;
\* the bytes stand for their hash
Bytecode_from(bytes) == [ code |-> code_elements(bytes, 1, 0) ]
codesize(bytecode) == Len(bytecode.code)
code_hash_of(bytecode) == [ i \in 1..Len(bytecode.code) |-> bytecode.code[i].value ]
code_vec(bytecode) == bytecode.code

\* BytecodeRow::head and BytecodeRow::body
BytecodeRow_head(code_hash, code_size) ==
    [ code_hash |-> code_hash, tag |-> "Header", index |-> 0, is_code |-> 0,
      value |-> code_size ]
BytecodeRow_body(code_hash, index, is_code, value) ==
    [ code_hash |-> code_hash, tag |-> "Byte", index |-> index,
      is_code |-> Bool(is_code), value |-> value ]

\* BytecodeUnroller::to_rows: the head row, then a body row for every
\* element of code_vec, enumerated from 0
to_rows(bytecode) ==
    << BytecodeRow_head(code_hash_of(bytecode), codesize(bytecode)) >>
    \o [ i \in 1..Len(code_vec(bytecode)) |->
            BytecodeRow_body(code_hash_of(bytecode), i - 1,
                             code_vec(bytecode)[i].is_code,
                             code_vec(bytecode)[i].value) ]

\* BytecodeUnroller::table_len
table_len(u) == Len(u.rows)

\* impl From<&Bytecode> for BytecodeUnroller
From_Bytecode(bytecode) == [ bytecode |-> bytecode, rows |-> to_rows(bytecode) ]

\* impl From<Vec<u8>> for BytecodeUnroller: "b.into()" with the target type
\* Self.  Into<BytecodeUnroller> for Vec<u8> is the blanket implementation
\* over From<Vec<u8>> for BytecodeUnroller, so the call enters this same
\* function with the same argument: the frame that follows frame `call`
From_Vec_u8(call) == [ call EXCEPT !.frames = @ + 1 ]

\* an unroller is made from the Bytecode of the bytes
FromBytecode(b) ==
    /\ unroller.status = "none"
    /\ unroller' = [ status |-> "built", via |-> "bytecode", bytes |-> b,
                     tail_call |-> FALSE, frames |-> 0,
                     value |-> From_Bytecode(Bytecode_from(b)) ]
    /\ UNCHANGED << child, cell_manager, evm, path, proof_values, rows, forged, r,
                    is_s, br, pbr, pos, leaf, drifted, grp, tampered, phase,
                    verdict >>

\* BytecodeUnroller::from(b) is called on raw bytes; the build either
\* pushes a frame for every call or has made the call in tail position a
\* jump
CallFromVec(b, tail_call) ==
    /\ unroller.status = "none"
    /\ unroller' = [ status |-> "calling", via |-> "vec", bytes |-> b,
                     tail_call |-> tail_call, frames |-> 1,
                     value |-> [ bytecode |-> Bytecode_from(<< >>), rows |-> << >> ] ]
    /\ UNCHANGED << child, cell_manager, evm, path, proof_values, rows, forged, r,
                    is_s, br, pbr, pos, leaf, drifted, grp, tampered, phase,
                    verdict >>

\* the body of from runs: it calls itself, on a new frame while the stack
\* has room, and the process is ended by the stack overflow when it has none
EnterFrom ==
    /\ unroller.status = "calling"
    /\ ~unroller.tail_call
    /\ unroller' = IF unroller.frames < MaxFrames
                   THEN From_Vec_u8(unroller)
                   ELSE [ unroller EXCEPT !.status = "aborted" ]
    /\ UNCHANGED << child, cell_manager, evm, path, proof_values, rows, forged, r,
                    is_s, br, pbr, pos, leaf, drifted, grp, tampered, phase,
                    verdict >>

\* the body of from runs in the build that jumps: the same frame again
JumpToFrom ==
    /\ unroller.status = "calling"
    /\ unroller.tail_call
    /\ unroller' = [ From_Vec_u8(unroller) EXCEPT !.frames = unroller.frames ]
    /\ UNCHANGED << child, cell_manager, evm, path, proof_values, rows, forged, r,
                    is_s, br, pbr, pos, leaf, drifted, grp, tampered, phase,
                    verdict >>

NextBytecode ==
    \/ \E b \in Codes : FromBytecode(b)
    \/ \E b \in Codes, tail_call \in BOOLEAN : CallFromVec(b, tail_call)
    \/ EnterFrom
    \/ JumpToFrom

\* a call that has begun goes on running
SpecBytecode == Init /\ [][NextBytecode]_vars /\ WF_vars(NextBytecode)

-----------------------------------------------------------------------------
(* CellManager: the cells of its advice columns, handed out column by      *)
(* column until reset                                                      *)

\* "let height = 32;"
CellHeight == 32

\* the numbers of advice columns, the counts of query_cells and the
\* height_limits of reset; CellHeight + 1 is above the height
CellWidths == { 1, 2, 3 }
QueryCounts == { 1, 2, 3 }
HeightLimits == { 0, 1, 2, CellHeight, CellHeight + 1 }

\* CellManager::new: the cell of column c and rotation r is cells[c * height
\* + r]; every column starts with height 0
CellManager_new(width) ==
    [ width |-> width,
      height |-> CellHeight,
      cells |-> [ k \in 1..(width * CellHeight) |->
                    [ column |-> (k - 1) \div CellHeight,
                      rotation |-> (k - 1) % CellHeight ] ],
      columns |-> [ c \in 1..width |-> [ index |-> c - 1, height |-> 0 ] ],
      height_limit |-> CellHeight ]

\* the loop of next_column over the columns from the i-th on, with <=
\* in place of <: the last of the lowest columns
RECURSIVE last_lowest_column(_, _, _, _)
last_lowest_column(columns, i, best_index, best_height) ==
    IF i > Len(columns) THEN [ index |-> best_index, height |-> best_height ]
    ELSE IF columns[i].height <= best_height
    THEN last_lowest_column(columns, i + 1, columns[i].index, columns[i].height)
    ELSE last_lowest_column(columns, i + 1, best_index, best_height)

\* the loop of next_column over the columns from the i-th on; -1 is None
RECURSIVE lowest_column(_, _, _, _)
lowest_column(columns, i, best_index, best_height) ==
    IF i > Len(columns) THEN [ index |-> best_index, height |-> best_height ]
    ELSE IF columns[i].height < best_height
    THEN lowest_column(columns, i + 1, columns[i].index, columns[i].height)
    ELSE lowest_column(columns, i + 1, best_index, best_height)

\* next_column with the last of the lowest columns
next_column_last_of_ties(cm) ==
    LET best == last_lowest_column(cm.columns, 1, -1, cm.height - 1)
    IN  IF best.height >= cm.height_limit THEN -1 ELSE best.index

\* CellManager::next_column: the index of the first column of the lowest
\* height, None (-1) when that height has reached height_limit; the caller
\* panics on None
next_column(cm) ==
    LET best == lowest_column(cm.columns, 1, -1, cm.height)
    IN  IF best.height >= cm.height_limit THEN -1 ELSE best.index

\* CellManager::query_cells: the loop that takes one cell at a time; the
\* panic of next_column ends it with the columns as they are by then
RECURSIVE query_cells_loop(_, _, _)
query_cells_loop(cm, cells, count) ==
    IF Len(cells) >= count THEN [ cm |-> cm, cells |-> cells, panic |-> "" ]
    ELSE LET column_idx == next_column(cm)
         IN  IF column_idx < 0
             THEN [ cm |-> cm, cells |-> << >>,
                    panic |-> "not enough cells for query" ]
             ELSE LET column == cm.columns[column_idx + 1]
                  IN  query_cells_loop(
                          [ cm EXCEPT !.columns[column_idx + 1].height = @ + 1 ],
                          Append(cells,
                                 cm.cells[column_idx * cm.height + column.height + 1]),
                          count)

query_cells(cm, count) == query_cells_loop(cm, << >>, count)

\* CellManager::query_cell: "self.query_cells(cell_type, 1)[0].clone()"
query_cell(cm) ==
    LET q == query_cells(cm, 1)
    IN  [ q EXCEPT !.cells = IF q.panic = "" THEN << q.cells[1] >> ELSE << >> ]

\* CellManager::reset
reset(cm, height_limit) ==
    IF height_limit <= cm.height
    THEN [ cm |-> [ cm EXCEPT
                      !.height_limit = height_limit,
                      !.columns = [ c \in 1..Len(cm.columns) |->
                                      [ cm.columns[c] EXCEPT !.height = 0 ] ] ],
           panic |-> "" ]
    ELSE [ cm |-> cm, panic |-> "assertion failed: height_limit <= self.height" ]

Heights(cm) == [ c \in 1..Len(cm.columns) |-> cm.columns[c].height ]

\* the state of the manager after a call: the cells handed out since the
\* last reset, and of the last call the count asked for, the heights before
\* it and the cells it returned
AfterQuery(q, count) ==
    [ status |-> IF q.panic = "" THEN "ready" ELSE "aborted",
      panic |-> q.panic,
      cm |-> q.cm,
      handed |-> cell_manager.handed \o q.cells,
      last |-> [ count |-> count, before |-> Heights(cell_manager.cm),
                 height_limit |-> cell_manager.cm.height_limit,
                 cells |-> q.cells ] ]

NewCellManager(width) ==
    /\ cell_manager.status = "none"
    /\ LET cm == CellManager_new(width)
       IN  cell_manager' =
               [ status |-> "ready", panic |-> "", cm |-> cm, handed |-> << >>,
                 last |-> [ count |-> 0, before |-> Heights(cm),
                            height_limit |-> cm.height_limit, cells |-> << >> ] ]
    /\ UNCHANGED << child, unroller, evm, path, proof_values, rows, forged, r, is_s,
                    br, pbr, pos, leaf, drifted, grp, tampered, phase, verdict >>

QueryCells(count) ==
    /\ cell_manager.status = "ready"
    /\ cell_manager' = AfterQuery(query_cells(cell_manager.cm, count), count)
    /\ UNCHANGED << child, unroller, evm, path, proof_values, rows, forged, r, is_s,
                    br, pbr, pos, leaf, drifted, grp, tampered, phase, verdict >>

QueryCell ==
    /\ cell_manager.status = "ready"
    /\ cell_manager' = AfterQuery(query_cell(cell_manager.cm), 1)
    /\ UNCHANGED << child, unroller, evm, path, proof_values, rows, forged, r, is_s,
                    br, pbr, pos, leaf, drifted, grp, tampered, phase, verdict >>

Reset(height_limit) ==
    /\ cell_manager.status = "ready"
    /\ LET q == reset(cell_manager.cm, height_limit)
       IN  cell_manager' =
               IF q.panic = ""
               THEN [ status |-> "ready", panic |-> "", cm |-> q.cm,
                      handed |-> << >>,
                      last |-> [ count |-> 0, before |-> Heights(q.cm),
                                 height_limit |-> q.cm.height_limit,
                                 cells |-> << >> ] ]
               ELSE [ cell_manager EXCEPT !.status = "aborted", !.panic = q.panic ]
    /\ UNCHANGED << child, unroller, evm, path, proof_values, rows, forged, r, is_s,
                    br, pbr, pos, leaf, drifted, grp, tampered, phase, verdict >>

NextCells ==
    \/ \E width \in CellWidths : NewCellManager(width)
    \/ \E count \in QueryCounts : QueryCells(count)
    \/ QueryCell
    \/ \E height_limit \in HeightLimits : Reset(height_limit)

SpecCells == Init /\ [][NextCells]_vars

-----------------------------------------------------------------------------
(* Reading the verdict *)

Verified == phase = "verified"
LeafAccepted == Verified /\ verdict.leaf
DriftedRowAccepted == Verified /\ verdict.drifted

-----------------------------------------------------------------------------
(* Properties of the storage leaf key gates *)

\* not in the first level, and the branch above is no placeholder on the
\* leaf's side
NormalContext ==
    pos.is_leaf_in_first_level = 0 /\ is_branch_placeholder(br, is_s) = 0

FirstLevelContext == pos.is_leaf_in_first_level = 1

\* the leaf is not in the first level and the branch above it is a
\* placeholder on the leaf's side
AfterPlaceholderContext ==
    pos.is_leaf_in_first_level = 0 /\ is_branch_placeholder(br, is_s) = 1

LeafShort     == leaf.flag1 = 0 /\ leaf.flag2 = 1
LeafLong      == leaf.flag1 = 1 /\ leaf.flag2 = 0
LeafLastLevel == leaf.flag1 = 1 /\ leaf.flag2 = 1
LeafOneNibble == leaf.flag1 = 0 /\ leaf.flag2 = 0

\* the key-length byte of a short or long leaf
KeyLenByte == IF LeafShort THEN leaf.s_rlp2 ELSE leaf.bytes[1]

\* nibbles the leaf row holds, counted over the integers
NibblesContributed ==
    IF LeafLastLevel THEN 0
    ELSE IF LeafOneNibble THEN 1
    ELSE (2 * (KeyLenByte - 128) - 2) * br.c1 + (2 * (KeyLenByte - 128) - 1) * br.c16

\* C1: a leaf key row that is not in the first level and whose branch is no
\* placeholder on its side is accepted only if the nibble counter of the
\* branch init row plus the nibbles of the leaf is exactly 64, in each of the
\* four leaf cases.
C1_TotalNibbles64 ==
    (LeafAccepted /\ NormalContext) => br.nibbles_count + NibblesContributed = 64

C1_Witness ==
    /\ LeafAccepted /\ NormalContext /\ LeafLong
    /\ tampered = 0 /\ br.nibbles_count = 2

\* C2: a leaf in the first level is accepted only if 2 * (L - 128 - 1) = 64
\* for its key-length byte L (s_rlp2 when short, s_main.bytes[0] when long);
\* the nibble counter of a branch plays no part.
C2_FirstLevelNibbles64 ==
    (LeafAccepted /\ FirstLevelContext) =>
        /\ LeafShort => 2 * (leaf.s_rlp2 - 128 - 1) = 64
        /\ LeafLong => 2 * (leaf.bytes[1] - 128 - 1) = 64

C2_Witness ==
    /\ LeafAccepted /\ FirstLevelContext /\ LeafLong
    /\ br.nibbles_count = 1

Selectors(flag1, flag2) ==
    << is_long(flag1, flag2), is_short(flag1, flag2),
       last_level(flag1, flag2), one_nibble(flag1, flag2) >>

\* C3: for boolean flag1 and flag2 exactly one of the four case selectors is
\* 1 and the others are 0: (1,0) is is_long, (0,1) is_short, (1,1) last_level
\* and (0,0) one_nibble; so it is for the flags of the rows assigned.
C3_ExactlyOneCase ==
    /\ Selectors(1, 0) = << 1, 0, 0, 0 >>
    /\ Selectors(0, 1) = << 0, 1, 0, 0 >>
    /\ Selectors(1, 1) = << 0, 0, 1, 0 >>
    /\ Selectors(0, 0) = << 0, 0, 0, 1 >>
    /\ \A row \in {leaf, drifted} :
           (row.flag1 \in {0, 1} /\ row.flag2 \in {0, 1}) =>
               LET sel == Selectors(row.flag1, row.flag2)
               IN  /\ sel[1] + sel[2] + sel[3] + sel[4] = 1
                   /\ \A i \in 1..4 : sel[i] \in {0, 1}

C3_Witness ==
    /\ LeafAccepted /\ LeafShort /\ tampered = 0
    /\ Selectors(leaf.flag1, leaf.flag2) = << 0, 1, 0, 0 >>
    /\ Selectors(drifted.flag1, drifted.flag2) = << 0, 1, 0, 0 >>

\* C4: a leaf key row or a drifted leaf row whose flag1 or flag2 is neither 0
\* nor 1 is rejected, whatever the other cells hold.
C4_FlagsBoolean ==
    /\ LeafAccepted => (leaf.flag1 \in {0, 1} /\ leaf.flag2 \in {0, 1})
    /\ DriftedRowAccepted => (drifted.flag1 \in {0, 1} /\ drifted.flag2 \in {0, 1})

C4_Witness ==
    /\ Verified /\ drifted.flag2 = 2 /\ drifted.flag1 = 0
    /\ ~verdict.drifted /\ verdict.leaf

\* C5: a leaf key row or drifted leaf row that is is_long (flag1 = 1,
\* flag2 = 0) is accepted only with s_rlp1 = 248.
C5_LongFirstByte248 ==
    /\ (LeafAccepted /\ LeafLong) => leaf.s_rlp1 = 248
    /\ (DriftedRowAccepted /\ drifted.flag1 = 1 /\ drifted.flag2 = 0) =>
           drifted.s_rlp1 = 248

C5_Witness ==
    /\ Verified /\ LeafLong /\ leaf.s_rlp1 = 247
    /\ leaf.acc_rlc = HonestAcc(leaf, r)
    /\ ~verdict.leaf

\* C6: a last_level leaf (flag1 = flag2 = 1) in the normal context is accepted
\* only if s_rlp2 = 32, its key_rlc is the key RLC of the branch above
\* unchanged, and the nibble counter of the branch is already 64.
C6_LastLevel ==
    (LeafAccepted /\ NormalContext /\ LeafLastLevel) =>
        /\ leaf.s_rlp2 = 32
        /\ leaf.key_rlc = br.key_rlc
        /\ br.nibbles_count = 64

C6_Witness ==
    /\ LeafAccepted /\ NormalContext /\ LeafLastLevel
    /\ tampered = 0 /\ leaf.key_rlc = KeyRlcDirect(ExampleKey, r)

\* the key RLC of the branch above with the nibble of a one_nibble leaf folded in
OneNibbleKeyRlc == Add(br.key_rlc, Mul(Sub(leaf.s_rlp2, c48), br.key_mult))

\* C7: a one_nibble leaf (flag1 = flag2 = 0) in the normal context is accepted
\* only if its key_rlc is the key RLC of the branch above plus its nibble
\* (s_rlp2 - 48) times the multiplier of the branch, and the leaf counts for
\* one nibble.
C7_OneNibbleFolded ==
    (LeafAccepted /\ NormalContext /\ LeafOneNibble) =>
        /\ leaf.key_rlc = OneNibbleKeyRlc
        /\ br.nibbles_count + 1 = 64

\* the one_nibble leaf of the example key, its key_rlc the RLC of the whole
\* key, is rejected
C7_Witness ==
    /\ Verified /\ NormalContext /\ LeafOneNibble /\ tampered = 0
    /\ leaf.key_rlc = OneNibbleKeyRlc
    /\ leaf.key_rlc = KeyRlcDirect(ExampleKey, r)
    /\ br.nibbles_count = 63
    /\ ~verdict.leaf

\* C8, as the code has it: an is_short or is_long leaf in the normal context
\* with key-length byte L holds 2 * (L - 128) - 2 nibbles when the branch above
\* has c1 set and 2 * (L - 128) - 1 when it has c16 set.
C8_NibblesByParity ==
    (LeafAccepted /\ NormalContext /\ (LeafShort \/ LeafLong)) =>
        /\ (br.c1 = 1 /\ br.c16 = 0) =>
               /\ leaf_nibbles(leaf, br.c16, br.c1) = 2 * (KeyLenByte - 128) - 2
               /\ br.nibbles_count + 2 * (KeyLenByte - 128) - 2 = 64
        /\ (br.c16 = 1 /\ br.c1 = 0) =>
               /\ leaf_nibbles(leaf, br.c16, br.c1) = 2 * (KeyLenByte - 128) - 1
               /\ br.nibbles_count + 2 * (KeyLenByte - 128) - 1 = 64

\* C8 as stated: 2 * (L - 128) - 1 nibbles under c1, 2 * (L - 128) - 2 under c16
C8_AsStated ==
    (LeafAccepted /\ NormalContext /\ (LeafShort \/ LeafLong)) =>
        /\ (br.c1 = 1 /\ br.c16 = 0) =>
               leaf_nibbles(leaf, br.c16, br.c1) = 2 * (KeyLenByte - 128) - 1
        /\ (br.c16 = 1 /\ br.c1 = 0) =>
               leaf_nibbles(leaf, br.c16, br.c1) = 2 * (KeyLenByte - 128) - 2

C8_Witness ==
    /\ LeafAccepted /\ NormalContext /\ LeafShort /\ tampered = 0
    /\ br.c1 = 1 /\ br.nibbles_count = 2 /\ leaf.s_rlp2 = 128 + 32

\* C9: in the normal context under a branch with c1 set, an is_short leaf is
\* accepted only with s_main.bytes[0] = 32 and an is_long leaf only with
\* s_main.bytes[1] = 32.
C9_EvenPrefix32 ==
    (LeafAccepted /\ NormalContext /\ br.c1 = 1) =>
        /\ LeafShort => leaf.bytes[1] = 32
        /\ LeafLong => leaf.bytes[2] = 32

C9_Witness ==
    /\ Verified /\ NormalContext /\ br.c1 = 1 /\ LeafShort
    /\ leaf.bytes[1] = 33 /\ leaf.acc_rlc = HonestAcc(leaf, r)
    /\ ~verdict.leaf

\* the key bytes after s_main.bytes[0] of a short leaf, each at the next
\* power of r: bytes[1] * r + bytes[2] * r^2 + ... + c_rlp1 * r^32
ShortKeyTail == KeyRlcRange(leaf.bytes \o << leaf.c_rlp1 >>, 2, HASH_WIDTH + 1, r)

\* C10, as the code has it: for an is_short leaf in the normal context under a
\* branch with c16 set, b0 = s_main.bytes[0] adds (b0 - 48) times the
\* multiplier of the branch to the key RLC, and each following key byte is
\* folded at the next power of r.
C10_FirstNibbleAtMultiplier ==
    (LeafAccepted /\ NormalContext /\ LeafShort /\ br.c16 = 1 /\ br.c1 = 0) =>
        leaf.key_rlc =
            Add(Add(br.key_rlc, Mul(Sub(leaf.bytes[1], c48), br.key_mult)),
                Mul(br.key_mult, ShortKeyTail))

\* C10 as stated: b0 adds (b0 - 48) times the multiplier times 16
C10_AsStated ==
    (LeafAccepted /\ NormalContext /\ LeafShort /\ br.c16 = 1 /\ br.c1 = 0) =>
        leaf.key_rlc =
            Add(Add(br.key_rlc,
                    Mul(Sub(leaf.bytes[1], c48), Mul(br.key_mult, 16))),
                Mul(br.key_mult, ShortKeyTail))

C10_Witness ==
    /\ LeafAccepted /\ NormalContext /\ LeafShort /\ tampered = 0
    /\ br.c16 = 1 /\ leaf.bytes[1] = 48 + 11
    /\ leaf.key_rlc = KeyRlcDirect(ExampleKey, r)

\* the row with its key bytes one position to the left: s_main.bytes[1..],
\* c_rlp1, c_rlp2 moved to s_main.bytes[0..], c_rlp1
ShiftedLeft(l) ==
    [ l EXCEPT !.bytes = SubSeq(l.bytes, 2, HASH_WIDTH) \o << l.c_rlp1 >>,
               !.c_rlp1 = l.c_rlp2,
               !.c_rlp2 = 0 ]

\* start values and parities the long and short computations are compared at
ParityPairs == { << 1, 0 >>, << 0, 1 >> }

\* the start values of the gate after a placeholder
AfterPlaceholderStart ==
    [ rlc  |-> Mul(leaf.sel1, Sub(1, pos.is_first_storage_level)),
      mult |-> Add(Mul(leaf.sel2, Sub(1, pos.is_first_storage_level)),
                   pos.is_first_storage_level) ]

\* C11: the key RLC of an is_long row is the key RLC of the is_short row that
\* holds the same key bytes one position to the left, whatever the start
\* values and c16 / c1, in the normal gate, the first-level gate and the gate
\* after a placeholder; so the key_rlc accepted for a long row is the short
\* computation over the shifted row.
C11_LongIsShortShifted ==
    (Verified /\ LeafLong) =>
        /\ tampered = 0 =>
               /\ \A c \in ParityPairs :
                      /\ key_rlc_acc_long(br.key_rlc, br.key_mult, c[1], c[2], leaf, r)
                             = key_rlc_acc_short(br.key_rlc, br.key_mult, c[1], c[2],
                                                 ShiftedLeft(leaf), r)
                      /\ key_rlc_acc_long(AfterPlaceholderStart.rlc,
                                          AfterPlaceholderStart.mult, c[1], c[2], leaf, r)
                             = key_rlc_acc_short(AfterPlaceholderStart.rlc,
                                                 AfterPlaceholderStart.mult,
                                                 c[1], c[2], ShiftedLeft(leaf), r)
               /\ first_level_key_rlc_acc_long(leaf, r)
                      = first_level_key_rlc_acc_short(ShiftedLeft(leaf), r)
        /\ (verdict.leaf /\ NormalContext) =>
               leaf.key_rlc = key_rlc_acc_short(br.key_rlc, br.key_mult, br.c16, br.c1,
                                                ShiftedLeft(leaf), r)
        /\ (verdict.leaf /\ FirstLevelContext) =>
               leaf.key_rlc = first_level_key_rlc_acc_short(ShiftedLeft(leaf), r)
        /\ (verdict.leaf /\ AfterPlaceholderContext) =>
               leaf.key_rlc
                   = key_rlc_acc_short(AfterPlaceholderStart.rlc, AfterPlaceholderStart.mult,
                                       Mul(Sub(1, pos.is_first_storage_level), pbr.c16),
                                       Add(Mul(Sub(1, pos.is_first_storage_level), pbr.c1),
                                           pos.is_first_storage_level),
                                       ShiftedLeft(leaf), r)

C11_Witness ==
    /\ LeafAccepted /\ LeafLong /\ NormalContext /\ tampered = 0
    /\ br.c16 = 1 /\ br.nibbles_count = 1
    /\ leaf.bytes[1] = 128 + 32 /\ ShiftedLeft(leaf).bytes[1] = 48 + 11
    /\ leaf.key_rlc = key_rlc_acc_short(br.key_rlc, br.key_mult, br.c16, br.c1,
                                        ShiftedLeft(leaf), r)

\* the rows assigned are those of key k below n branches, none a placeholder
\* on the leaf's side, whatever the key_rlc cell of the leaf row holds
GroupOfKey(k, n) ==
    /\ br.nibbles_count = n
    /\ pos = PositionCells(n)
    /\ is_branch_placeholder(br, is_s) = 0
    /\ br = PathBranch(KeyBytes(k), n, r)
    /\ \E form \in Forms :
           [ leaf EXCEPT !.key_rlc = 0 ]
               = [ HonestLeaf(KeyBytes(k), n, form, pbr, pos, r) EXCEPT !.key_rlc = 0 ]

\* C12: for a key whose nibbles are consumed one per branch down to some
\* depth and whose remaining nibbles are in the leaf, the key RLC the leaf
\* gates accept is the RLC computed directly over the 32 bytes of the key.
C12_KeyRlcRoundTrip ==
    Verified =>
        \A k \in 1..NumKeys, n \in Depths :
            GroupOfKey(k, n) =>
                (verdict.leaf <=> leaf.key_rlc = KeyRlcDirect(KeyBytes(k), r))

\* below 62 branches the round trip holds: the short leaf with the last two
\* nibbles of the example key is accepted with the RLC of the whole key
C12_Witness ==
    /\ LeafAccepted /\ tampered = 0 /\ LeafShort
    /\ GroupOfKey(1, 62)
    /\ leaf.bytes[2] = ExampleKey[HASH_WIDTH]
    /\ leaf.key_rlc = KeyRlcDirect(ExampleKey, r)

\* sum of seq[first], seq[first + 1], ... weighted 1, r, r^2, ...
PlainRlcFrom(seq, first) ==
    KeyRlcRange(SubSeq(seq, first, Len(seq)), 1, Len(seq) - first + 1, r)

\* C13: a leaf in the first level is accepted only if its prefix byte
\* (s_main.bytes[0] when short, s_main.bytes[1] when long) is 32 and its
\* key_rlc is the sum of the key bytes after the prefix weighted 1, r, r^2,
\* ... (start 0, multiplier 1); the verdict does not depend on any cell of a
\* branch row.
C13_FirstLevelIdentityStart ==
    (Verified /\ FirstLevelContext) =>
        /\ (verdict.leaf /\ LeafShort) =>
               /\ leaf.bytes[1] = c32
               /\ leaf.key_rlc = PlainRlcFrom(leaf.bytes \o << leaf.c_rlp1 >>, 2)
        /\ (verdict.leaf /\ LeafLong) =>
               /\ leaf.bytes[2] = c32
               /\ leaf.key_rlc
                      = PlainRlcFrom(leaf.bytes \o << leaf.c_rlp1, leaf.c_rlp2 >>, 3)
        /\ \A i \in 1..2 :
               LeafKeyAccepted(leaf, OtherBranchRows[r][i], OtherBranchRows[r][3 - i],
                               pos, i = 1, r) = verdict.leaf

\* the short first-level leaf of the example key: prefix 32, then the 32 key
\* bytes, the last of them in c_main.rlp1
C13_Witness ==
    /\ LeafAccepted /\ FirstLevelContext /\ LeafShort /\ tampered = 0
    /\ br = NoBranch /\ leaf.bytes[1] = c32
    /\ leaf.bytes[2] = ExampleKey[1] /\ leaf.c_rlp1 = ExampleKey[HASH_WIDTH]
    /\ leaf.key_rlc = PlainRlcFrom(leaf.bytes \o << leaf.c_rlp1 >>, 2)
    /\ leaf.key_rlc # 0

\* key RLC and multiplier of the branch above the placeholder branch, 0 and 1
\* when the placeholder branch is in the first storage level
PrevLevelStart ==
    IF pos.is_first_storage_level = 1 THEN [ rlc |-> 0, mult |-> 1 ]
    ELSE [ rlc |-> pbr.key_rlc, mult |-> pbr.key_mult ]

\* the placeholder branch row with another key RLC and multiplier
OtherKeyRlc(b) == [ b EXCEPT !.key_rlc = F(@ + 1), !.key_mult = F(@ + 1) ]

\* C14: a leaf after a placeholder branch, not in the first level, is
\* accepted only if denoter.sel1 / sel2 hold key.rlc / key.mult of the branch
\* above the placeholder branch (0 and 1 when the placeholder branch is in the
\* first storage level) and its key_rlc continues from them; key.rlc and
\* key.mult of the placeholder branch itself do not change the verdict.
C14_StartAbovePlaceholder ==
    (Verified /\ AfterPlaceholderContext /\ pos.is_first_storage_level \in {0, 1}) =>
        /\ verdict.leaf =>
               /\ pos.is_first_storage_level = 0 =>
                      leaf.sel1 = pbr.key_rlc /\ leaf.sel2 = pbr.key_mult
               /\ pos.is_first_storage_level = 1 =>
                      leaf.sel1 = 0 /\ leaf.sel2 = 1
               /\ LeafShort =>
                      leaf.key_rlc
                          = key_rlc_acc_short(PrevLevelStart.rlc, PrevLevelStart.mult,
                                              Mul(Sub(1, pos.is_first_storage_level), pbr.c16),
                                              Add(Mul(Sub(1, pos.is_first_storage_level), pbr.c1),
                                                  pos.is_first_storage_level),
                                              leaf, r)
               /\ LeafLong =>
                      leaf.key_rlc
                          = key_rlc_acc_long(PrevLevelStart.rlc, PrevLevelStart.mult,
                                             Mul(Sub(1, pos.is_first_storage_level), pbr.c16),
                                             Add(Mul(Sub(1, pos.is_first_storage_level), pbr.c1),
                                                 pos.is_first_storage_level),
                                             leaf, r)
        /\ LeafKeyAccepted(leaf, OtherKeyRlc(br), pbr, pos, is_s, r) = verdict.leaf

\* the example key's short leaf below two branches and a placeholder branch
\* whose key RLC differs from the one the leaf starts from
C14_Witness ==
    /\ LeafAccepted /\ AfterPlaceholderContext /\ LeafShort /\ tampered = 0
    /\ pos.is_first_storage_level = 0
    /\ pbr.nibbles_count = 2 /\ br.nibbles_count = 3
    /\ br.key_rlc # pbr.key_rlc
    /\ leaf.sel1 = pbr.key_rlc /\ leaf.sel2 = pbr.key_mult
    /\ leaf.key_rlc = KeyRlcDirect(ExampleKey, r)

-----------------------------------------------------------------------------
(* Properties of the drifted leaf row *)

LeafKeySRlc == IF is_s THEN leaf.key_rlc ELSE grp.other_key_rlc
LeafKeyCRlc == IF is_s THEN grp.other_key_rlc ELSE leaf.key_rlc

\* the drifted row belongs to a leaf below a placeholder branch and is not in
\* the first storage level
DriftedContext(side) ==
    /\ pos.is_leaf_in_first_level = 0
    /\ pos.is_first_storage_level \in {0, 1}
    /\ br[side] = 1

DriftedShort     == drifted.flag1 = 0 /\ drifted.flag2 = 1
DriftedLong      == drifted.flag1 = 1 /\ drifted.flag2 = 0
DriftedLastLevel == drifted.flag1 = 1 /\ drifted.flag2 = 1
DriftedOneNibble == drifted.flag1 = 0 /\ drifted.flag2 = 0

\* the key RLC of the drifted leaf: the key RLC before the branch it drifted
\* into, its nibble in that branch, and the key bytes of its row
RecomputedDriftedKeyRlc ==
    LET km == IF pos.is_first_storage_level = 1
              THEN IF grp.is_ext_one_nibble = 1 THEN 1 ELSE grp.mult_diff
              ELSE Mul(pbr.key_mult, grp.mult_diff)
        start == Add(grp.ext_key_rlc,
                     Mul(grp.drifted_pos, Mul(Add(Mul(16, br.c16), br.c1), km)))
        bytes == IF DriftedShort THEN drifted.bytes
                 ELSE SubSeq(drifted.bytes, 2, HASH_WIDTH) \o << drifted.c_rlp1 >>
    IN  IF DriftedLastLevel THEN start
        ELSE Add(Add(start, Mul(br.c16, Mul(Sub(bytes[1], c48), km))),
                 Mul(km, KeyRlcRange(bytes, 2, HASH_WIDTH, r)))

\* C15: when the branch above is a placeholder on side S (resp. C) and the
\* leaf is not in the first storage level, the drifted row is accepted only if
\* the key RLC recomputed for it (start RLC, drifted index, key bytes of the
\* row by short / long / last_level case) is the key_rlc of the LEAF_KEY_S
\* (resp. LEAF_KEY_C) row.
C15_DriftContinuity ==
    (DriftedRowAccepted /\ grp.is_ext_one_nibble \in {0, 1}) =>
        /\ DriftedContext("is_s_placeholder") => LeafKeySRlc = RecomputedDriftedKeyRlc
        /\ DriftedContext("is_c_placeholder") => LeafKeyCRlc = RecomputedDriftedKeyRlc

\* the example key's leaf, drifted below two branches into the branch added at
\* nibble 3, keeps the key RLC of the LEAF_KEY_S row
C15_Witness ==
    /\ DriftedRowAccepted /\ tampered = 0 /\ is_s
    /\ DriftedContext("is_s_placeholder") /\ DriftedShort
    /\ pbr.nibbles_count = 2 /\ grp.drifted_pos = Nibble(ExampleKey, 3)
    /\ grp.other_key_rlc # leaf.key_rlc
    /\ leaf.key_rlc = KeyRlcDirect(ExampleKey, r)
    /\ leaf.key_rlc = RecomputedDriftedKeyRlc

\* C16: when the branch above is a placeholder (S or C) and the leaf is not in
\* the first storage level, a drifted row with flag1 = 0 and flag2 = 0 is
\* rejected.
C16_DriftedNeverOneNibble ==
    (Verified /\ DriftedOneNibble
        /\ (DriftedContext("is_s_placeholder") \/ DriftedContext("is_c_placeholder")))
        => ~verdict.drifted

\* the leaf that drifts below 62 branches has one nibble left: its row is
\* rejected
C16_Witness ==
    /\ Verified /\ tampered = 0 /\ DriftedOneNibble
    /\ DriftedContext("is_s_placeholder")
    /\ pbr.nibbles_count = 62
    /\ drifted.s_rlp2 = c48 + Nibble(ExampleKey, 64)
    /\ ~verdict.drifted

\* RLC of all the bytes of the drifted leaf: acc_s.rlc of the drifted row
\* continued at acc_s.mult over s_main.rlp1, s_main.rlp2 and s_main.bytes of
\* the LEAF_VALUE row v
DriftedLeafRlc(v) ==
    Add(drifted.acc_rlc,
        Mul(drifted.acc_mult,
            KeyRlcRange(<< v.s_rlp1, v.s_rlp2 >> \o v.bytes, 1, HASH_WIDTH + 2, r)))

\* C17: when side S (resp. C) is the placeholder and the leaf is not in the
\* first storage level, the drifted row is accepted only if the keccak table
\* holds the pair (RLC of the drifted row continued over the LEAF_VALUE_S
\* (resp. LEAF_VALUE_C) row, s_mod_node_hash_rlc (resp. c_mod_node_hash_rlc)
\* of the branch); on a side that is no placeholder the pair looked up is
\* (0, 0).
C17_DriftedHashInTable ==
    Verified =>
        /\ (verdict.drifted /\ DriftedContext("is_s_placeholder")) =>
               InKeccakTable(<< DriftedLeafRlc(grp.value_s), grp.s_mod_node_hash_rlc >>)
        /\ (verdict.drifted /\ DriftedContext("is_c_placeholder")) =>
               InKeccakTable(<< DriftedLeafRlc(grp.value_c), grp.c_mod_node_hash_rlc >>)
        /\ br.is_s_placeholder = 0 =>
               drifted_hash_lookup_s(drifted, br, pos, grp, r) = << 0, 0 >>
        /\ br.is_c_placeholder = 0 =>
               drifted_hash_lookup_c(drifted, br, pos, grp, r) = << 0, 0 >>

\* the drifted leaf with the value of LEAF_VALUE_S is in the table under the
\* hash of the placeholder branch; the pair of side C is (0, 0)
C17_Witness ==
    /\ DriftedRowAccepted /\ tampered = 0 /\ DriftedContext("is_s_placeholder")
    /\ br.is_c_placeholder = 0
    /\ grp.value_s.s_rlp1 = 130 /\ grp.value_s.bytes[1] = 205
    /\ DriftedLeafRlc(grp.value_s) # 0
    /\ grp.s_mod_node_hash_rlc = KeccakRlc(DriftedLeafRlc(grp.value_s))
    /\ grp.c_mod_node_hash_rlc # KeccakRlc(DriftedLeafRlc(grp.value_c))
    /\ drifted_hash_lookup_c(drifted, br, pos, grp, r) = << 0, 0 >>

\* the checks of the drifted row that do not depend on the level
DriftedLevelFreeChecks ==
    /\ leaf_range_lookups(drifted)
    /\ drifted.flag1 \in {0, 1} /\ drifted.flag2 \in {0, 1}
    /\ DriftedLong => drifted.s_rlp1 = c248

\* C18: when the first-level flag read at rot_into_account is 1, the drifted
\* row is accepted whatever the placeholder flags, the row bytes, the
\* accumulators, the key RLCs and the hashes are: the not-one-nibble check, the
\* row RLC checks, the prefix checks, the key continuity checks and both hash
\* lookups are disabled.
C18_FirstLevelDisablesDrift ==
    (Verified /\ pos.is_leaf_in_first_level = 1) =>
        (verdict.drifted <=> DriftedLevelFreeChecks)

\* a first-level leaf whose rotations land on a row with the placeholder flag
\* set: the empty drifted row, flags 0 and 0, with a byte overwritten is
\* accepted
C18_Witness ==
    /\ DriftedRowAccepted /\ pos.is_leaf_in_first_level = 1
    /\ br.is_s_placeholder = 1 /\ DriftedOneNibble
    /\ tampered = 1 /\ drifted.bytes[1] = 1 /\ drifted.acc_rlc = 0
    /\ grp.s_mod_node_hash_rlc # KeccakRlc(DriftedLeafRlc(grp.value_s))


-----------------------------------------------------------------------------
(* Properties of the branch rows *)

\* rows i .. i + ARITY + 1 are a branch: the init row, the child rows with
\* node_index 0 .. 15, and a row after them that is no branch child
BranchAt(i) ==
    /\ i + ARITY + 1 <= Len(rows)
    /\ rows[i].is_init = 1
    /\ \A j \in 1..ARITY :
           rows[i + j].is_child = 1 /\ rows[i + j].node_index = j - 1
    /\ rows[i + ARITY + 1].is_child = 0

\* C19: in the rows the gate accepts, each branch init row is followed by
\* exactly 16 branch child rows with node_index 0, 1, ..., 15 in this order;
\* a branch child row follows a branch init row or a branch child row; and
\* is_branch_child goes back to 0 only after the row with node_index 15 and
\* is_last_child 1
C19_BranchRowOrder ==
    \A i \in 1..Len(rows) :
        /\ rows[i].is_init = 1 =>
               \A j \in 1..(ARITY + 1) :
                   i + j <= Len(rows) =>
                       IF j <= ARITY
                       THEN /\ rows[i + j].is_child = 1
                            /\ rows[i + j].node_index = j - 1
                       ELSE rows[i + j].is_child = 0
        /\ (i > 1 /\ rows[i].is_child = 1) =>
               (rows[i - 1].is_init = 1 \/ rows[i - 1].is_child = 1)
        /\ (i > 1 /\ rows[i - 1].is_child = 1 /\ rows[i].is_child = 0) =>
               /\ rows[i - 1].node_index = ARITY - 1
               /\ rows[i - 1].is_last_child = 1

\* a branch of 16 children has been closed by a row that is no branch child
C19_Witness == forged = 0 /\ BranchAt(1)

\* C20: in every branch the gate accepts, is_modified is 1 at exactly one of
\* the 16 child rows and 0 at the others, and this row is the one whose
\* node_index is the modified_index of the branch
C20_OneModifiedChild ==
    \A i \in 1..Len(rows) :
        BranchAt(i) =>
            \E j \in 1..ARITY :
                /\ rows[i + j].is_modified = 1
                /\ rows[i + j].node_index = rows[i + j].modified_index
                /\ \A k \in 1..ARITY :
                       /\ rows[i + k].modified_index = rows[i + j].modified_index
                       /\ k # j => rows[i + k].is_modified = 0

\* a branch has been closed after the prover set a cell on its own
C20_Witness == forged = 1 /\ \E i \in 1..Len(rows) : BranchAt(i)

-----------------------------------------------------------------------------
(* Properties of the cells of a branch *)

\* the branch of the init row i is a placeholder on the S or on the C side
PlaceholderAt(i) ==
    rows[i].is_placeholder_s = 1 \/ rows[i].is_placeholder_c = 1

\* the child rows of the branch at which is_drifted is set
DriftedChildren(i) == { j \in 1..ARITY : rows[i + j].is_drifted # 0 }

\* C21: in every accepted branch that is a placeholder, on S or on C,
\* is_drifted is set at exactly one of the 16 child rows, and that row is
\* the one whose node_index equals the drifted_index of the branch
C21_OneDriftedChild ==
    \A i \in 1..Len(rows) :
        (BranchAt(i) /\ PlaceholderAt(i)) =>
            \E j \in 1..ARITY :
                /\ DriftedChildren(i) = {j}
                /\ rows[i + j].node_index = rows[i + j].drifted_index

\* a placeholder branch has been closed with all the cells the witness
\* pass assigned
C21_Witness ==
    /\ forged = 0
    /\ BranchAt(1)
    /\ rows[1].is_placeholder_c = 1
    /\ DriftedChildren(1) = {proof_values.drifted_pos + 1}

\* C22: in every accepted branch modified_index, drifted_index,
\* s_mod_node_hash_rlc and c_mod_node_hash_rlc each have one single value
\* across the 16 child rows: child j equals child j - 1 for j from 1 to 15
C22_SameForAllChildren ==
    \A i \in 1..Len(rows) :
        BranchAt(i) =>
            \A j \in 2..ARITY :
                /\ rows[i + j].modified_index = rows[i + j - 1].modified_index
                /\ rows[i + j].drifted_index = rows[i + j - 1].drifted_index
                /\ rows[i + j].s_mod_node_hash_rlc = rows[i + j - 1].s_mod_node_hash_rlc
                /\ rows[i + j].c_mod_node_hash_rlc = rows[i + j - 1].c_mod_node_hash_rlc

\* a branch whose drifted_index is not its modified_index has been closed
\* after the prover set a cell of it
C22_Witness ==
    /\ forged = 1
    /\ BranchAt(1)
    /\ rows[2].drifted_index # rows[2].modified_index
    /\ rows[2].s_mod_node_hash_rlc # rows[2].c_mod_node_hash_rlc

\* the S side and the C side of the row hold the same rlp2 and the same 32
\* bytes
SameChild(row) ==
    /\ row.s_rlp2 = row.c_rlp2
    /\ \A j \in 0..(HASH_WIDTH - 1) :
           get_byte(row.s_bytes, j) = get_byte(row.c_bytes, j)

\* C23: in the accepted rows every child row whose node_index differs from
\* modified_index holds the same rlp2 and the same 32 bytes on the S and on
\* the C side: the sides of a branch may differ at the modified child only,
\* and a row that makes a second child differ is rejected
C23_SingleDiff ==
    \A i \in 1..Len(rows) :
        (rows[i].is_child = 1 /\ rows[i].node_index # rows[i].modified_index)
            => SameChild(rows[i])

\* a branch whose sides differ at the modified child has been accepted
C23_Witness ==
    /\ BranchAt(1)
    /\ \E j \in 1..ARITY :
           /\ rows[1 + j].node_index = rows[1 + j].modified_index
           /\ ~SameChild(rows[1 + j])
           /\ \A k \in (1..ARITY) \ {j} : SameChild(rows[1 + k])

\* the RLP-encoded length of the child in the row, as the witness pass
\* counts it
ChildLen(row, side_s) ==
    child_len(Main(row, side_s).rlp2, get_byte(Main(row, side_s).bytes, 0))

\* the sum of the lengths of the children j..16 of the branch at row i
RECURSIVE ChildrenLen(_, _, _)
ChildrenLen(i, j, side_s) ==
    IF j > ARITY THEN 0
    ELSE ChildLen(rows[i + j], side_s) + ChildrenLen(i, j + 1, side_s)

\* the length of the branch its init row declares
DeclaredLen(init, side_s) ==
    branch_len(IF side_s THEN init.s_len ELSE init.c_len)

\* C24: on each side rlp1 of an accepted child row is the length left before
\* it (the length the init row declares below an init row, rlp1 of the child
\* before otherwise) minus the encoded length of the child, and it is 1 at
\* the last child; so the lengths of the 16 children of an accepted branch
\* sum to the declared length minus 1
C24_BytesLeft ==
    \A i \in 2..Len(rows) : \A side_s \in BOOLEAN :
        /\ rows[i].is_child = 1 =>
               /\ Main(rows[i], side_s).rlp1 =
                      (IF rows[i - 1].is_init = 1
                       THEN DeclaredLen(rows[i - 1], side_s)
                       ELSE Main(rows[i - 1], side_s).rlp1)
                      - ChildLen(rows[i], side_s)
               /\ rows[i].is_last_child = 1 => Main(rows[i], side_s).rlp1 = 1
        /\ BranchAt(i - 1) =>
               ChildrenLen(i - 1, 1, side_s) = DeclaredLen(rows[i - 1], side_s) - 1

\* a branch whose sides differ in length has been closed
C24_Witness ==
    /\ BranchAt(1)
    /\ DeclaredLen(rows[1], TRUE) # DeclaredLen(rows[1], FALSE)
    /\ rows[1 + ARITY].s_rlp1 = 1
    /\ rows[1 + ARITY].c_rlp1 = 1

\* C25: at every accepted branch init row of a branch that is not an
\* extension node the nibble counter is the nibble counter of the branch
\* above plus 1, or 1 when the branch is at the top of the trie
C25_NibbleCounter ==
    \A i \in 1..Len(rows) :
        (rows[i].is_init = 1 /\ rows[i].is_extension = 0) =>
            rows[i].nibbles_counter =
                IF i = 1 THEN 1
                ELSE rows[i - BRANCH_ROWS_NUM].nibbles_counter + 1

\* a branch that is not an extension node has been assigned below a branch
\* that is one
C25_Witness ==
    /\ Len(rows) > BRANCH_ROWS_NUM
    /\ rows[1].is_init = 1
    /\ rows[1].is_extension = 1
    /\ rows[1].nibbles_counter > 1
    /\ rows[1 + BRANCH_ROWS_NUM].is_init = 1
    /\ rows[1 + BRANCH_ROWS_NUM].is_extension = 0
    /\ rows[1 + BRANCH_ROWS_NUM].nibbles_counter = rows[1].nibbles_counter + 1

\* the children of the branch of the init row i that are not nil on a side:
\* a nil child is the byte 128 below an rlp2 of 0
NonNilChildren(i, side_s) ==
    { n \in 0..(ARITY - 1) :
        LET c == Main(rows[i + 1 + n], side_s)
        IN  ~(c.rlp2 = 0 /\ get_byte(c.bytes, 0) = 128) }

\* C26: in every accepted branch that is a placeholder on one side, the
\* other side has exactly two children that are not nil, the one at
\* modified_index and the one at drifted_index; its 14 other children are nil
C26_SiblingTwoChildren ==
    \A i \in 1..Len(rows) :
        (BranchAt(i) /\ rows[i].is_placeholder_s + rows[i].is_placeholder_c = 1) =>
            NonNilChildren(i, rows[i].is_placeholder_s # 1) =
                {rows[i + 1].modified_index, rows[i + 1].drifted_index}

\* a branch with a placeholder on S has been closed with all the cells the
\* witness pass assigned, and its C side has a third child
C26_Witness ==
    /\ forged = 0
    /\ BranchAt(1)
    /\ rows[1].is_placeholder_s = 1
    /\ NonNilChildren(1, FALSE) =
           {rows[2].modified_index, rows[2].drifted_index} \cup ExtraNodes
    /\ NonNilChildren(1, TRUE) = {rows[2].drifted_index} \cup ExtraNodes

\* C27: below every path of branches and extension nodes the nibble counter
\* of the last branch init row plus the nibbles the leaf gate reads from the
\* leaf row are the 64 nibbles of the key, and the gate's constraint on the
\* total holds
C27_NibbleConservation ==
    (phase = "verified" /\ path.branches >= 1) =>
        /\ Add(br.nibbles_count, leaf_nibbles(leaf, br.c16, br.c1)) = c64
        /\ total_nibbles_64(leaf, br, pos, is_s) = 0

\* a leaf of one nibble lies below 63 nibbles of branches and extension
\* nodes, the last of them an extension node of 42 nibbles
C27_Witness ==
    /\ phase = "verified"
    /\ one_nibble(leaf.flag1, leaf.flag2) = 1
    /\ path.depth = 63
    /\ Len(proof_values.witness.ext) = 42
    /\ get_byte(ExtRow(proof_values.witness.ext), 0) = 248
    /\ proof_values.nibbles_num = 63

\* the start values of the key RLC of the leaf row in its context: 0 and 1
\* in the first level, the key RLC, multiplier and c16 / c1 of the branch
\* above, and of the branch above the placeholder when the branch above is
\* a placeholder
KeyRlcStart ==
    IF FirstLevelContext
    THEN [ rlc |-> 0, mult |-> 1, c16 |-> 0, c1 |-> 1 ]
    ELSE IF AfterPlaceholderContext
    THEN [ rlc  |-> PrevLevelStart.rlc,
           mult |-> PrevLevelStart.mult,
           c16  |-> Mul(Sub(1, pos.is_first_storage_level), pbr.c16),
           c1   |-> Add(Mul(Sub(1, pos.is_first_storage_level), pbr.c1),
                        pos.is_first_storage_level) ]
    ELSE [ rlc |-> br.key_rlc, mult |-> br.key_mult, c16 |-> br.c16, c1 |-> br.c1 ]

\* the key RLC recomputed from the start values and the key bytes of the
\* leaf row: no nibble is left in the last level, one nibble (s_rlp2 - 48)
\* in a leaf of one nibble
RecomputedKeyRlc ==
    LET s == KeyRlcStart
    IN  IF LeafShort THEN key_rlc_acc_short(s.rlc, s.mult, s.c16, s.c1, leaf, r)
        ELSE IF LeafLong THEN key_rlc_acc_long(s.rlc, s.mult, s.c16, s.c1, leaf, r)
        ELSE IF LeafLastLevel THEN s.rlc
        ELSE Add(s.rlc, Mul(Sub(leaf.s_rlp2, c48), s.mult))

\* C28: in the normal context, in the first level and after a placeholder,
\* a short, long, last-level or one-nibble leaf key row is accepted only if
\* its key_rlc cell holds the key RLC recomputed from the start values and
\* the key bytes of the row
C28_KeyRlcConstrained ==
    (LeafAccepted /\ leaf.flag1 \in {0, 1} /\ leaf.flag2 \in {0, 1}) =>
        leaf.key_rlc = RecomputedKeyRlc

\* a leaf of one nibble below a placeholder branch is accepted after its
\* key_rlc cell, which held the recomputed key RLC, was overwritten
C28_Witness ==
    /\ LeafAccepted /\ AfterPlaceholderContext /\ LeafOneNibble
    /\ tampered = 1
    /\ leaf.key_rlc \in { F(RecomputedKeyRlc + d) : d \in Deltas }
    /\ RecomputedKeyRlc = KeyRlcDirect(ExampleKey, r)

\* key RLC and multiplier of a child row, or of proof_values
KeyOf(c) == << c.key_rlc, c.key_rlc_mult >>

\* C29: the children of a branch assigned so far all hold the key RLC and
\* the multiplier of its first child (so the rows at rot_into_init - 3 and
\* rot_into_init - 5 of the rows below the branch hold the same); and in
\* the branch the pass is at, proof_values holds the key of the level above
\* until the first child is assigned and from then on the key of the first
\* child, reached from the key of the level above in one update
C29_KeyOncePerBranch ==
    \A i \in 1..Len(rows) :
        rows[i].is_init = 1 =>
            LET n == IF Len(rows) - i < ARITY THEN Len(rows) - i ELSE ARITY
                above == IF i = 1 THEN KeyOf(ProofValuesInit) ELSE KeyOf(rows[i - 3])
            IN  /\ \A j \in 1..n : KeyOf(rows[i + j]) = KeyOf(rows[i + 1])
                /\ Len(rows) < i + BRANCH_ROWS_NUM =>
                       IF n = 0
                       THEN KeyOf(proof_values) = above
                       ELSE /\ KeyOf(proof_values) = KeyOf(rows[i + 1])
                            /\ << proof_values.key_rlc_prev,
                                  proof_values.key_rlc_mult_prev >> = above

\* the 16 children of a branch below an extension node hold one key RLC,
\* which is not the one of the level above, and the init row of the next
\* branch has been assigned
C29_Witness ==
    /\ forged = 0
    /\ BranchAt(1)
    /\ rows[1].is_extension = 1
    /\ KeyOf(rows[2]) # KeyOf(ProofValuesInit)
    /\ KeyOf(rows[ARITY + 1 - 2]) = KeyOf(rows[2])
    /\ KeyOf(rows[ARITY + 1]) = KeyOf(rows[2])
    /\ Len(rows) = BRANCH_ROWS_NUM + 1
    /\ rows[BRANCH_ROWS_NUM + 1].is_init = 1
    /\ KeyOf(proof_values) = KeyOf(rows[2])

\* C30: when a transaction that runs PUSH32 key; SLOAD twice on an account
\* whose storage holds value at key has ended, with STOP or with REVERT,
\* the two SLOAD steps satisfy the constraints of the gadget; each step
\* holds the key it popped and the stored value it pushed, and is_warm is 0
\* in the first step and 1 in the second
C30_SloadTwice ==
    evm.status = "halted" =>
        /\ Len(evm.steps) = 2
        /\ \A i \in 1..2 :
               /\ SloadGadget_configure(evm, evm.steps[i])
               /\ evm.steps[i].cells.key = evm.storage.key
               /\ evm.steps[i].cells.value = evm.storage.value
               /\ evm.steps[i].cells.is_warm = i - 1

\* the transaction of sload_gadget_simple that ends with REVERT has ended
C30_Witness ==
    /\ evm.status = "halted"
    /\ evm.call.is_persistent = 0
    /\ evm.storage = [ key |-> << 197121, 0 >>, value |-> << 394500, 0 >> ]
    /\ Len(evm.steps) = 2
    /\ evm.rw_counter = 1 + 4 + 2 * 8 + 3
    /\ Len(evm.rws) = evm.call.rw_counter_end_of_reversion

-----------------------------------------------------------------------------
(* Properties settled over the leaf key gates, the drifted leaf chip, the  *)
(* branch rows and the witness pass                                        *)

\* C31: a leaf key row in the first level is accepted only when exactly one
\* of flag1, flag2 is 1: the last_level flags (1, 1) and the one_nibble flags
\* (0, 0) are both rejected there.
C31_FirstLevelLongXorShort ==
    (LeafAccepted /\ FirstLevelContext) => (LeafShort \/ LeafLong)

\* both rejected combinations are tried on a first-level row
C31_Witness ==
    /\ Verified /\ FirstLevelContext /\ ~verdict.leaf
    /\ LeafLastLevel
    /\ leaf.acc_rlc = HonestAcc(leaf, r)
    /\ leaf.bytes[1] = 161

\* nibble counter, c16 and c1 of the branch above the placeholder branch; in
\* the first storage level there is no such branch
AbovePlaceholder ==
    IF pos.is_first_storage_level = 1
    THEN [ nibbles_count |-> 0, c16 |-> 0, c1 |-> 1 ]
    ELSE [ nibbles_count |-> pbr.nibbles_count, c16 |-> pbr.c16, c1 |-> pbr.c1 ]

\* nibbles of the leaf row after a placeholder, counted over the integers
NibblesAfterPlaceholder ==
    IF LeafLastLevel THEN 0
    ELSE IF LeafOneNibble THEN 1
    ELSE (2 * (KeyLenByte - 128) - 2) * AbovePlaceholder.c1
             + (2 * (KeyLenByte - 128) - 1) * AbovePlaceholder.c16

\* C32: a leaf key row after a placeholder branch (not in the first level) is
\* accepted only if the nibble counter of the branch above the placeholder
\* (0 in the first storage level) plus the nibbles of the leaf, taken with the
\* parity of that branch (c1 in the first storage level; 0 for a last_level
\* leaf), is 64; the nibble counter of the placeholder branch plays no part.
C32_NibblesAfterPlaceholder ==
    (LeafAccepted /\ AfterPlaceholderContext) =>
        AbovePlaceholder.nibbles_count + NibblesAfterPlaceholder = 64

\* an accepted row below a placeholder whose own nibble counter was
\* overwritten and would give another total
C32_Witness ==
    /\ LeafAccepted /\ AfterPlaceholderContext /\ LeafShort
    /\ pos.is_first_storage_level = 0
    /\ pbr.nibbles_count = 1 /\ pbr.c16 = 1
    /\ br.nibbles_count = 3
    /\ br.nibbles_count + NibblesAfterPlaceholder # 64

\* key_mult of the claim: the key multiplier of the level above times
\* mult_diff; below a placeholder branch in the first storage level 1 for a
\* one-nibble extension and mult_diff otherwise
StartKeyMult ==
    IF pos.is_first_storage_level = 1
    THEN IF grp.is_ext_one_nibble = 1 THEN 1 ELSE grp.mult_diff
    ELSE (pbr.key_mult * grp.mult_diff) % FieldModulus

\* the start key RLC by the parity of the branch
StartKeyRlc ==
    IF br.c16 = 1
    THEN (grp.ext_key_rlc
             + ((grp.drifted_pos * StartKeyMult) % FieldModulus) * 16) % FieldModulus
    ELSE (grp.ext_key_rlc + grp.drifted_pos * StartKeyMult) % FieldModulus

\* C33: the start key RLC of a drifted leaf is key.rlc of the extension row of
\* the branch plus drifted_pos * key_mult * 16 when the branch has c16 set and
\* plus drifted_pos * key_mult when it has c1 set, with key_mult the key
\* multiplier of the level above times mult_diff, and in the first storage
\* level 1 for a one-nibble extension and mult_diff otherwise; a last_level
\* drifted row is accepted only if the LEAF_KEY row of the placeholder side
\* holds that value.
C33_DriftedKeyRlcStart ==
    (phase # "empty" /\ br.c16 + br.c1 = 1 /\ grp.is_ext_one_nibble \in {0, 1}) =>
        /\ drifted_key_rlc_start(br, pbr, pos, grp) = StartKeyRlc
        /\ (DriftedRowAccepted /\ DriftedLastLevel) =>
               /\ DriftedContext("is_s_placeholder") => LeafKeySRlc = StartKeyRlc
               /\ DriftedContext("is_c_placeholder") => LeafKeyCRlc = StartKeyRlc

\* below a placeholder branch in the first storage level, with the flag of a
\* one-nibble extension set
C33_Witness ==
    /\ DriftedRowAccepted /\ DriftedContext("is_s_placeholder")
    /\ pos.is_first_storage_level = 1 /\ grp.is_ext_one_nibble = 1
    /\ br.c16 = 1 /\ grp.drifted_pos = Nibble(ExampleKey, 1)
    /\ drifted_key_rlc_start(br, pbr, pos, grp) = Mul(16, Nibble(ExampleKey, 1))

\* the child rows of the branch at row i with is_modified set
ModifiedChildren(i) == { j \in 1..ARITY : rows[i + j].is_modified = 1 }

\* mod_node_hash_rlc of the side at the close of the branch at row i is the
\* RLC of the bytes, of the side from_s, of one of the child rows js
HoldsChildRlc(i, side_s, from_s, js) ==
    \E j \in js :
        mod_node_rlc(rows[i + ARITY], side_s)
            = bytes_into_rlc(Main(rows[i + j], from_s).bytes, r)

\* C34: at the close of an accepted branch, on each side: the side that is no
\* placeholder holds in mod_node_hash_rlc the RLC of its own child bytes at
\* the is_modified row, the side that is a placeholder the RLC of the child
\* bytes of the other side at the is_drifted row.
C34_ModNodeHashRlc ==
    \A i \in 1..Len(rows) :
        BranchAt(i) =>
            \A side_s \in BOOLEAN :
                IF is_placeholder(rows[i], side_s) = 1
                THEN HoldsChildRlc(i, side_s, ~side_s, DriftedChildren(i))
                ELSE HoldsChildRlc(i, side_s, side_s, ModifiedChildren(i))

\* a branch that is a placeholder on C has been closed: c_mod_node_hash_rlc
\* is the RLC of the S bytes of the drifted child, not of the modified one
C34_Witness ==
    /\ forged = 0
    /\ BranchAt(1)
    /\ rows[1].is_placeholder_c = 1
    /\ HoldsChildRlc(1, FALSE, TRUE, DriftedChildren(1))
    /\ ~HoldsChildRlc(1, FALSE, FALSE, ModifiedChildren(1))
    /\ HoldsChildRlc(1, TRUE, TRUE, ModifiedChildren(1))

\* the branch above the drifted row is a placeholder on neither side
NoPlaceholderAbove == br.is_s_placeholder = 0 /\ br.is_c_placeholder = 0

\* C35: when neither placeholder flag of the branch above is set, the
\* key-prefix, key-continuity, row-RLC and not-one-nibble constraints on the
\* drifted leaf row are inactive: the row is accepted exactly when its flags
\* are boolean, s_rlp1 = 248 if it is is_long, and its bytes are in range.
C35_NoPlaceholderNoDriftChecks ==
    (Verified /\ NoPlaceholderAbove) => (verdict.drifted <=> DriftedLevelFreeChecks)

\* below a branch that is no placeholder a drifted row holding a short leaf
\* with an odd prefix, where the branch has c1 set, is accepted
C35_Witness ==
    /\ DriftedRowAccepted /\ NoPlaceholderAbove
    /\ pos.is_leaf_in_first_level = 0 /\ br.c1 = 1
    /\ DriftedShort /\ drifted.bytes[1] = c48 + Nibble(ExampleKey, 4)
    /\ tampered = 0

\* C36: the witness pass starts with key_rlc_sel = true and nibbles_num = 0,
\* and after any sequence of branches, plain or below a short, long even or
\* long odd extension node, passed through assign_branch_init and
\* assign_branch_child, key_rlc_sel is true exactly when nibbles_num is even.
C36_ParityOfKeyRlcSel ==
    proof_values.key_rlc_sel <=> (proof_values.nibbles_num % 2 = 0)

\* a plain branch and then the branch of a long odd extension node whose RLP
\* starts with 248: 45 nibbles, and the next nibble is the second of its byte
C36_Witness ==
    /\ path.branches = 2 /\ path.depth = 45
    /\ Len(proof_values.witness.ext) = 43
    /\ proof_values.is_odd /\ proof_values.is_long
    /\ proof_values.nibbles_num = 45
    /\ ~proof_values.key_rlc_sel
    /\ proof_values.node_index = ARITY

\* the kind of a row of the rw table: tag, field and direction
RwKind(row) == << row.tag, row.field, row.is_write >>

\* tx-id read, two reversion-info reads, callee-address read, stack pop,
\* storage read, stack push, access-list write
SloadRwOrder ==
    << << "CallContext", "TxId", FALSE >>,
       << "CallContext", "RwCounterEndOfReversion", FALSE >>,
       << "CallContext", "IsPersistent", FALSE >>,
       << "CallContext", "CalleeAddress", FALSE >>,
       << "Stack", "", FALSE >>,
       << "AccountStorage", "", FALSE >>,
       << "Stack", "", TRUE >>,
       << "TxAccessListAccountStorage", "", TRUE >> >>

\* C39: every SLOAD step looks up exactly 8 rw operations, at its
\* rw_counter onwards, of the kinds tx-id read, two reversion-info reads,
\* callee-address read, stack pop, storage read, stack push, access-list
\* write in this order, and its rw_counter advances by 8; the rows of the rw
\* table at these counters are the rows the gadget builds from its cells, so
\* that the key is the value of operation 4, the storage read is operation
\* 5, the pushed value is the value of operation 6 and is_warm is the
\* previous value of operation 7; the program counter and the
\* reversible_write_counter advance by 1.
C39_SloadRwOrder ==
    \A i \in 1..Len(evm.steps) :
        LET step == evm.steps[i]
            c == step.cells
            rwc == step.cur.rw_counter
            ops == rw_lookups(step)
        IN  /\ Len(ops) = 8
            /\ [ j \in 1..Len(ops) |-> RwKind(ops[j]) ] = SloadRwOrder
            /\ \A j \in 1..Len(ops) : RwLookup(evm, rwc + j - 1) = ops[j]
            /\ step.next.rw_counter - rwc = Len(ops)
            /\ c.key = RwLookup(evm, rwc + 4).value
            /\ c.key = RwLookup(evm, rwc + 5).key
            /\ c.value = RwLookup(evm, rwc + 5).value
            /\ c.committed_value = RwLookup(evm, rwc + 5).aux
            /\ c.value = RwLookup(evm, rwc + 6).value
            /\ c.key = RwLookup(evm, rwc + 7).key
            /\ << c.is_warm, 0 >> = RwLookup(evm, rwc + 7).value_prev
            /\ step.next.program_counter = step.cur.program_counter + 1
            /\ step.next.reversible_write_counter
                   = step.cur.reversible_write_counter + 1

\* the second SLOAD of a transaction has run on a key that differs from the
\* value stored at it: its operations are at the rw_counters 11..18
C39_Witness ==
    /\ Len(evm.steps) = 2
    /\ evm.steps[2].cur.rw_counter = 11
    /\ evm.steps[2].cells.key = << 5, 9 >>
    /\ evm.steps[2].cells.value = << 7, 3 >>
    /\ evm.steps[2].cells.is_warm = 1
    /\ evm.rw_counter = 11 + 8

\* on one side of the child row the length taken off rlp_len_rem, the
\* exponent of node_mult_diff and the number of bytes folded are one number
ChildLengthsAgree(rem_before, rem_after, diff, mult_before, a) ==
    /\ rem_before - rem_after = a.folded
    /\ diff = RPow(r, a.folded)
    /\ a.mult = Mul(mult_before, diff)

\* C37: a branch child row whose rlp2 is 0 or 160 on both sides passes
\* assign_branch_child without a panic, and on each side the amount taken
\* off rlp_len_rem, the exponent n of node_mult_diff = r^n and the number of
\* bytes folded into the branch accumulator, by which acc_mult advances, are
\* the same number.
C37_ChildLengthsAgree ==
    child.status # "none" =>
        /\ child.row.s.rlp2 \in { 0, 160 } /\ child.row.c.rlp2 \in { 0, 160 }
        /\ child.status = "assigned"
        /\ ChildLengthsAgree(child.before.rlp_len_rem_s, child.rlp_len_rem_s,
                             child.node_mult_diff_s, child.before.acc_mult_s,
                             child.s)
        /\ ChildLengthsAgree(child.before.rlp_len_rem_c, child.rlp_len_rem_c,
                             child.node_mult_diff_c, child.before.acc_mult_c,
                             child.c)

\* a child that is a list of 3 bytes on S and a hash on C: 4 and 33 bytes
C37_Witness ==
    /\ child.status = "assigned"
    /\ child.row.s.rlp2 = 0 /\ child.row.s.bytes[1] = 195
    /\ child.row.c.rlp2 = RLP_HASH_VALUE
    /\ child.before.rlp_len_rem_s - child.rlp_len_rem_s = 4
    /\ child.s.folded = 4 /\ child.node_mult_diff_s = RPow(r, 4)
    /\ child.before.rlp_len_rem_c - child.rlp_len_rem_c = 33
    /\ child.c.folded = 33 /\ child.node_mult_diff_c = RPow(r, 33)
    /\ child.c.mult = RPow(r, 2 + 33)

\* the unroller holds the rows of the Bytecode of the bytes b: the header
\* row, then one body row for every byte, body row i with index i
UnrolledFrom(u, b) ==
    /\ u.rows = to_rows(Bytecode_from(b))
    /\ table_len(u) = Len(b) + 1
    /\ u.rows[1].tag = "Header" /\ u.rows[1].value = Len(b)
    /\ \A i \in 0..(Len(b) - 1) :
           /\ u.rows[i + 2].tag = "Byte"
           /\ u.rows[i + 2].index = i
           /\ u.rows[i + 2].value = b[i + 1]

\* C38: a call of BytecodeUnroller::from on raw bytes returns, and what it
\* returns is an unroller with one header row and one body row for every
\* byte, body row i with index i: the rows of the unroller made from the
\* Bytecode of the bytes.
C38_FromVecTerminates ==
    (unroller.status = "calling")
        ~> (unroller.status = "built" /\ UnrolledFrom(unroller.value, unroller.bytes))

\* the call on PUSH1 84 STOP has used up the stack and no unroller was made
C38_Witness ==
    /\ unroller.status = "aborted" /\ unroller.via = "vec"
    /\ unroller.bytes = << 96, 84, 0 >>
    /\ unroller.frames = MaxFrames
    /\ unroller.value.rows = << >>

\* the first of the columns of the smallest height
MinColumn(heights) ==
    CHOOSE c \in 1..Len(heights) :
        \A d \in 1..Len(heights) :
            heights[c] < heights[d] \/ (heights[c] = heights[d] /\ c <= d)

\* the cells a request for n cells is to return from columns of these
\* heights: each the next free rotation of the first lowest column; none
\* once that column has reached the limit
RECURSIVE CellsDue(_, _, _)
CellsDue(heights, n, limit) ==
    IF n = 0 \/ heights[MinColumn(heights)] >= limit THEN << >>
    ELSE LET c == MinColumn(heights)
         IN  << [ column |-> c - 1, rotation |-> heights[c] ] >>
             \o CellsDue([ heights EXCEPT ![c] = @ + 1 ], n - 1, limit)

\* C40: since the last reset no cell (column, rotation) has been handed out
\* twice; the heights of the columns differ by at most 1; a request that
\* returned has returned, one after the other, the next free rotation of the
\* column of the smallest height, the lowest index on ties; and a request
\* made when every column had reached height_limit has aborted and
\* returned no cell.
C40_CellAllocation ==
    cell_manager.status # "none" =>
        LET handed == cell_manager.handed
            heights == Heights(cell_manager.cm)
            last == cell_manager.last
            due == CellsDue(last.before, last.count, last.height_limit)
        IN  /\ \A i \in 1..Len(handed) : \A j \in 1..Len(handed) :
                   handed[i] = handed[j] => i = j
            /\ \A c \in 1..Len(heights) : \A d \in 1..Len(heights) :
                   heights[c] - heights[d] <= 1
            /\ (cell_manager.status = "ready" /\ last.count > 0) =>
                   (last.cells = due /\ Len(last.cells) = last.count)
            /\ (last.count > 0
                    /\ \A c \in 1..Len(last.before) :
                           last.before[c] >= last.height_limit) =>
                   /\ cell_manager.status = "aborted"
                   /\ cell_manager.panic = "not enough cells for query"
                   /\ last.cells = << >>

\* three columns filled to the limit of 2 after a reset, the last request
\* having taken (1, 1) and (2, 1), and then a request that aborted
C40_Witness ==
    /\ cell_manager.status = "aborted"
    /\ cell_manager.panic = "not enough cells for query"
    /\ cell_manager.cm.width = 3 /\ cell_manager.cm.height_limit = 2
    /\ Heights(cell_manager.cm) = << 2, 2, 2 >>
    /\ Len(cell_manager.handed) = 6
    /\ cell_manager.handed[5] = [ column |-> 1, rotation |-> 1 ]
    /\ cell_manager.handed[6] = [ column |-> 2, rotation |-> 1 ]
    /\ cell_manager.last.before = << 2, 2, 2 >>

====
